---- MODULE Spec2Model ----
(***************************************************************************)
(* Model of the client-side-encrypted pastebin (Chomeles/pastebin2).       *)
(*                                                                         *)
(* Strings are sequences of UTF-16 code units, byte arrays are sequences   *)
(* of numbers in 0..255.  The text codec (TextEncoder / TextDecoder), the  *)
(* hex codec (arrayBufferToHex / hexToArrayBuffer with String.match and    *)
(* parseInt) and the envelope layout are modelled as the code computes     *)
(* them.  The platform primitives AES-GCM and PBKDF2 are stand-ins: a      *)
(* counter-mode keystream with a 16-byte tag recomputed and compared on    *)
(* decryption, and a deterministic key derivation from (password, salt).   *)
(***************************************************************************)
EXTENDS Integers, Sequences, FiniteSets, TLC

(***************************************************************************)
(* Bounds of the model.                                                    *)
(***************************************************************************)
MaxTextLen == 2
MaxPasswordLen == 1
NumKeys == 2
NumIvs == 2
NumSalts == 2
NumIds == 2
MaxSubmits == 2
MaxPuts == 2
NumPageRandom == 1
MaxTamperTextLen == 1
MaxCalls == 3
MaxPasswordSubmits == 2

(***************************************************************************)
(* Program constants.                                                      *)
(***************************************************************************)
IvBytes == 12
SaltBytes == 16
KeyBytes == 32
TagBytes == 16
IvHexLen == 24
SaltHexLen == 32
SaltIvHexLen == 56
CodeUnitBits == 16


(***************************************************************************)
(* Code units used by the codecs.                                          *)
(***************************************************************************)
ReplacementChar == 65533
ByteOrderMark == 65279

IsHighSurrogate(c) == c >= 55296 /\ c <= 56319
IsLowSurrogate(c) == c >= 56320 /\ c <= 57343

\* ECMAScript WhiteSpace and LineTerminator code points (skipped by parseInt).
StrWhiteSpace ==
  {9, 10, 11, 12, 13, 32, 160, 5760, 8232, 8233, 8239, 8287, 12288, 65279}
    \cup (8192..8202)

\* Code points that the regular expression atom "." does not match.
LineTerminator == {10, 13, 8232, 8233}

RECURSIVE Pow2(_)
Pow2(n) == IF n = 0 THEN 1 ELSE 2 * Pow2(n - 1)

\* c with bit k (0 = least significant) inverted.
FlipBit(c, k) ==
  IF (c \div Pow2(k)) % 2 = 1 THEN c - Pow2(k) ELSE c + Pow2(k)

(***************************************************************************)
(* strToUint8Array: new TextEncoder().encode(str).  UTF-8 of the string's  *)
(* scalar values; a surrogate that is not part of a pair is encoded as     *)
(* U+FFFD.                                                                 *)
(***************************************************************************)
Utf8OfCodePoint(cp) ==
  IF cp < 128 THEN <<cp>>
  ELSE IF cp < 2048 THEN <<192 + (cp \div 64), 128 + (cp % 64)>>
  ELSE IF cp < 65536 THEN
    <<224 + (cp \div 4096), 128 + ((cp \div 64) % 64), 128 + (cp % 64)>>
  ELSE <<240 + (cp \div 262144), 128 + ((cp \div 4096) % 64),
         128 + ((cp \div 64) % 64), 128 + (cp % 64)>>

RECURSIVE EncodeFrom(_, _)
EncodeFrom(str, i) ==
  IF i > Len(str) THEN <<>>
  ELSE LET c == str[i] IN
    IF IsHighSurrogate(c) /\ i < Len(str) /\ IsLowSurrogate(str[i + 1])
    THEN Utf8OfCodePoint(65536 + (c - 55296) * 1024 + (str[i + 1] - 56320))
           \o EncodeFrom(str, i + 2)
    ELSE IF IsHighSurrogate(c) \/ IsLowSurrogate(c)
    THEN Utf8OfCodePoint(ReplacementChar) \o EncodeFrom(str, i + 1)
    ELSE Utf8OfCodePoint(c) \o EncodeFrom(str, i + 1)

strToUint8Array(str) == EncodeFrom(str, 1)

(***************************************************************************)
(* uint8ArrayToStr: new TextDecoder().decode(buffer).  UTF-8 decoding,     *)
(* not fatal (an ill-formed sequence yields U+FFFD), ignoreBOM = false (a  *)
(* leading EF BB BF is consumed and not emitted).                          *)
(***************************************************************************)
Cont(b, i, lo, hi) == i <= Len(b) /\ b[i] >= lo /\ b[i] <= hi

RECURSIVE DecodeFrom(_, _)
DecodeFrom(b, i) ==
  IF i > Len(b) THEN <<>>
  ELSE LET c == b[i] IN
    IF c < 128 THEN <<c>> \o DecodeFrom(b, i + 1)
    ELSE IF c >= 194 /\ c <= 223 THEN
      IF Cont(b, i + 1, 128, 191)
      THEN <<(c - 192) * 64 + (b[i + 1] - 128)>> \o DecodeFrom(b, i + 2)
      ELSE <<ReplacementChar>> \o DecodeFrom(b, i + 1)
    ELSE IF c >= 224 /\ c <= 239 THEN
      LET lo == IF c = 224 THEN 160 ELSE 128
          hi == IF c = 237 THEN 159 ELSE 191 IN
      IF ~Cont(b, i + 1, lo, hi)
      THEN <<ReplacementChar>> \o DecodeFrom(b, i + 1)
      ELSE IF ~Cont(b, i + 2, 128, 191)
      THEN <<ReplacementChar>> \o DecodeFrom(b, i + 2)
      ELSE <<(c - 224) * 4096 + (b[i + 1] - 128) * 64 + (b[i + 2] - 128)>>
             \o DecodeFrom(b, i + 3)
    ELSE IF c >= 240 /\ c <= 244 THEN
      LET lo == IF c = 240 THEN 144 ELSE 128
          hi == IF c = 244 THEN 143 ELSE 191 IN
      IF ~Cont(b, i + 1, lo, hi)
      THEN <<ReplacementChar>> \o DecodeFrom(b, i + 1)
      ELSE IF ~Cont(b, i + 2, 128, 191)
      THEN <<ReplacementChar>> \o DecodeFrom(b, i + 2)
      ELSE IF ~Cont(b, i + 3, 128, 191)
      THEN <<ReplacementChar>> \o DecodeFrom(b, i + 3)
      ELSE LET cp == (c - 240) * 262144 + (b[i + 1] - 128) * 4096
                       + (b[i + 2] - 128) * 64 + (b[i + 3] - 128) IN
           <<55296 + ((cp - 65536) \div 1024), 56320 + ((cp - 65536) % 1024)>>
             \o DecodeFrom(b, i + 4)
    ELSE <<ReplacementChar>> \o DecodeFrom(b, i + 1)

HasUtf8Bom(b) == Len(b) >= 3 /\ b[1] = 239 /\ b[2] = 187 /\ b[3] = 191

uint8ArrayToStr(buffer) ==
  IF HasUtf8Bom(buffer) THEN DecodeFrom(buffer, 4) ELSE DecodeFrom(buffer, 1)

(***************************************************************************)
(* arrayBufferToHex: b.toString(16).padStart(2, '0') joined.               *)
(***************************************************************************)
HexDigitChar(n) == IF n < 10 THEN 48 + n ELSE 87 + n

ToString16(b) ==
  IF b < 16 THEN <<HexDigitChar(b)>>
  ELSE <<HexDigitChar(b \div 16), HexDigitChar(b % 16)>>

\* padStart left out.
PadStart2_None(s) == s

PadStart2(s) == IF Len(s) < 2 THEN <<48>> \o s ELSE s

RECURSIVE HexFrom(_, _)
HexFrom(buffer, i) ==
  IF i > Len(buffer) THEN <<>>
  ELSE PadStart2(ToString16(buffer[i])) \o HexFrom(buffer, i + 1)

arrayBufferToHex(buffer) == HexFrom(buffer, 1)

(***************************************************************************)
(* hexToArrayBuffer: hex.match(/.{1,2}/g) then parseInt(byte, 16) of each  *)
(* match, stored into a Uint8Array.                                        *)
(***************************************************************************)
NaN == -1000

\* The value of a code unit as a digit (0-9, a-z, A-Z), or -1.
DigitValue(c) ==
  IF c >= 48 /\ c <= 57 THEN c - 48
  ELSE IF c >= 97 /\ c <= 122 THEN c - 87
  ELSE IF c >= 65 /\ c <= 90 THEN c - 55
  ELSE -1

IsDigit(c, radix) == DigitValue(c) >= 0 /\ DigitValue(c) < radix

RECURSIVE SkipWhiteSpace(_)
SkipWhiteSpace(s) ==
  IF s # <<>> /\ s[1] \in StrWhiteSpace THEN SkipWhiteSpace(Tail(s)) ELSE s

\* The number denoted by the longest prefix of s made of digits of the
\* radix, with acc the value and n the count of the digits read so far.
RECURSIVE DigitsPrefix(_, _, _, _)
DigitsPrefix(s, radix, acc, n) ==
  IF s # <<>> /\ IsDigit(s[1], radix)
  THEN DigitsPrefix(Tail(s), radix, acc * radix + DigitValue(s[1]), n + 1)
  ELSE IF n = 0 THEN NaN ELSE acc

\* parseInt(string, radix), radix 0 standing for an omitted radix: leading
\* white space is skipped, then an optional sign, then "0x" or "0X" when the
\* radix is 16 or omitted (it makes an omitted radix 16, which is 10
\* otherwise), then the longest digit prefix.
parseInt(string, radix) ==
  LET s1 == SkipWhiteSpace(string)
      neg == s1 # <<>> /\ s1[1] = 45
      s2 == IF s1 # <<>> /\ s1[1] \in {43, 45} THEN Tail(s1) ELSE s1
      hex == radix \in {0, 16} /\ Len(s2) >= 2 /\ s2[1] = 48
               /\ s2[2] \in {120, 88}
      s3 == IF hex THEN SubSeq(s2, 3, Len(s2)) ELSE s2
      r == IF radix # 0 THEN radix ELSE IF hex THEN 16 ELSE 10
      v == DigitsPrefix(s3, r, 0, 0)
  IN IF v = NaN THEN NaN ELSE IF neg THEN 0 - v ELSE v

\* Storing a number into a Uint8Array element: NaN becomes 0, others wrap.
ToUint8(v) == IF v = NaN THEN 0 ELSE v % 256

\* The matches of /.{1,2}/g, left to right, greedy.
RECURSIVE MatchPairs(_, _)
MatchPairs(hex, i) ==
  IF i > Len(hex) THEN <<>>
  ELSE IF hex[i] \in LineTerminator THEN MatchPairs(hex, i + 1)
  ELSE IF i < Len(hex) /\ hex[i + 1] \notin LineTerminator
  THEN <<SubSeq(hex, i, i + 1)>> \o MatchPairs(hex, i + 2)
  ELSE <<SubSeq(hex, i, i)>> \o MatchPairs(hex, i + 1)

hexToArrayBuffer(hex) ==
  LET matches == MatchPairs(hex, 1)
  IN [j \in 1..Len(matches) |-> ToUint8(parseInt(matches[j], 16))]

\* String.prototype.substring(start) and substring(start, end), 0-based.
Min(a, b) == IF a < b THEN a ELSE b
substring(s, start, end) == SubSeq(s, Min(start, Len(s)) + 1, Min(end, Len(s)))
substringFrom(s, start) == SubSeq(s, Min(start, Len(s)) + 1, Len(s))

(***************************************************************************)
(* Stand-ins for the platform primitives.                                  *)
(*                                                                         *)
(* AES-GCM: ciphertext byte i is the plaintext byte plus a keystream byte  *)
(* of (key, iv, i), modulo 256; the 16-byte tag is a digest of key, iv and *)
(* ciphertext.  Decryption recomputes the tag and compares it, as GCM      *)
(* does, and rejects on a mismatch.  The digest weights every byte by an   *)
(* odd factor, so no change of one byte keeps the tag.                     *)
(***************************************************************************)
RECURSIVE WeightedSum(_, _)
WeightedSum(x, i) ==
  IF i > Len(x) THEN 0 ELSE (2 * i + 1) * x[i] + WeightedSum(x, i + 1)

KeyStreamByte(key, iv, i) ==
  (WeightedSum(key, 1) + 3 * WeightedSum(iv, 1) + 7 * i) % 256

GcmTag(key, iv, ct) ==
  LET h == WeightedSum(iv \o ct \o key, 1) + 1000003 * Len(ct) + 7 * Len(iv)
  IN [j \in 1..TagBytes |-> (h \div Pow2(8 * ((j - 1) % 4))) % 256]

AesGcmEncrypt(key, iv, data) ==
  LET ct == [i \in 1..Len(data) |-> (data[i] + KeyStreamByte(key, iv, i)) % 256]
  IN ct \o GcmTag(key, iv, ct)

\* [ok |-> the tag verified, val |-> the plaintext bytes].
AesGcmDecrypt(key, iv, data) ==
  IF Len(data) < TagBytes \/ Len(iv) = 0 THEN [ok |-> FALSE, val |-> <<>>]
  ELSE LET n == Len(data) - TagBytes
           ct == SubSeq(data, 1, n)
           tag == SubSeq(data, n + 1, Len(data))
       IN IF tag # GcmTag(key, iv, ct) THEN [ok |-> FALSE, val |-> <<>>]
          ELSE [ok |-> TRUE,
                val |-> [i \in 1..n |->
                           (ct[i] + 256 - KeyStreamByte(key, iv, i)) % 256]]

\* PBKDF2-HMAC-SHA256, 100000 iterations, 256-bit output: a deterministic
\* function of the password bytes and the salt.
Pbkdf2(passwordBytes, salt) ==
  LET h == 5 * WeightedSum(passwordBytes, 1) + 4099 * Len(passwordBytes)
             + WeightedSum(salt, 1)
  IN [j \in 1..KeyBytes |-> ((h \div Pow2(8 * ((j - 1) % 3))) + 17 * j) % 256]

\* The lengths of raw key subtle.importKey accepts for AES-GCM, in bytes.
AesKeyLengths == {16, 24, 32}

(***************************************************************************)
(* Results of the asynchronous operations: a resolved promise carries val, *)
(* a rejected one carries err.                                             *)
(***************************************************************************)
Resolved(v) == [ok |-> TRUE, val |-> v, err |-> ""]
Rejected(e) == [ok |-> FALSE, val |-> <<>>, err |-> e]

DataError == "DataError"
NotSupportedError == "NotSupportedError"
KeyedDecryptError == "Failed to decrypt: Invalid key or corrupted data"
PasswordDecryptError == "Failed to decrypt: Invalid password or corrupted data"

(***************************************************************************)
(* src/utils/crypto.ts                                                     *)
(***************************************************************************)
deriveKeyFromPassword(password, salt) ==
  Pbkdf2(strToUint8Array(password), salt)

importKey(hexKey) ==
  LET keyData == hexToArrayBuffer(hexKey)
  IN IF Len(keyData) \in AesKeyLengths THEN Resolved(keyData)
     ELSE Rejected(DataError)

\* encrypt(text, hexKey), with iv the value getRandomValues returns.
encrypt(text, hexKey, iv) ==
  LET key == importKey(hexKey)
  IN IF ~key.ok THEN Rejected(key.err)
     ELSE LET encrypted == AesGcmEncrypt(key.val, iv, strToUint8Array(text))
              ivHex == arrayBufferToHex(iv)
              encryptedHex == arrayBufferToHex(encrypted)
          IN Resolved(ivHex \o encryptedHex)

\* encryptWithPassword(text, password), with salt and iv the values
\* getRandomValues returns.
encryptWithPassword(text, password, salt, iv) ==
  LET key == deriveKeyFromPassword(password, salt)
      encrypted == AesGcmEncrypt(key, iv, strToUint8Array(text))
      saltHex == arrayBufferToHex(salt)
      ivHex == arrayBufferToHex(iv)
      encryptedHex == arrayBufferToHex(encrypted)
  IN Resolved(saltHex \o ivHex \o encryptedHex)

decrypt(ciphertext, hexKey) ==
  LET ivHex == substring(ciphertext, 0, IvHexLen)
      encryptedHex == substringFrom(ciphertext, IvHexLen)
      iv == hexToArrayBuffer(ivHex)
      encrypted == hexToArrayBuffer(encryptedHex)
      key == importKey(hexKey)
  IN IF ~key.ok THEN Rejected(key.err)
     ELSE LET decrypted == AesGcmDecrypt(key.val, iv, encrypted)
          IN IF decrypted.ok THEN Resolved(uint8ArrayToStr(decrypted.val))
             ELSE Rejected(KeyedDecryptError)

decryptWithPassword(ciphertext, password) ==
  LET saltHex == substring(ciphertext, 0, SaltHexLen)
      ivHex == substring(ciphertext, SaltHexLen, SaltIvHexLen)
      encryptedHex == substringFrom(ciphertext, SaltIvHexLen)
      salt == hexToArrayBuffer(saltHex)
      iv == hexToArrayBuffer(ivHex)
      encrypted == hexToArrayBuffer(encryptedHex)
      key == deriveKeyFromPassword(password, salt)
      decrypted == AesGcmDecrypt(key, iv, encrypted)
  IN IF decrypted.ok THEN Resolved(uint8ArrayToStr(decrypted.val))
     ELSE Rejected(PasswordDecryptError)

(***************************************************************************)
(* The values the random source can return, and the inputs of the model.   *)
(***************************************************************************)
RandomBytes(len, seed) == [j \in 1..len |-> (seed * 37 + (j - 1) * 11) % 256]

IvPool == {RandomBytes(IvBytes, n) : n \in 1..NumIvs}
SaltPool == {RandomBytes(SaltBytes, 2 * n + 1) : n \in 1..NumSalts}

\* generateKey: the hex form of 32 random bytes.
generateKey(n) == arrayBufferToHex(RandomBytes(KeyBytes, 3 * n))
GeneratedKeys == {generateKey(n) : n \in 1..NumKeys}

ToUpperCase(s) ==
  [i \in 1..Len(s) |-> IF s[i] >= 97 /\ s[i] <= 122 THEN s[i] - 32 ELSE s[i]]

\* Key strings a caller can pass (the URL fragment is free text): generated
\* keys, their upper-case spellings, and a string of the wrong length.
KeyStrings ==
  GeneratedKeys \cup {ToUpperCase(k) : k \in GeneratedKeys} \cup {<<48, 48>>}

\* Code units of the texts: "a", e-acute, U+FEFF, and the two halves of the
\* surrogate pair U+1F600, each of which can also stand alone.
TextAlphabet == {97, 233, ByteOrderMark, 55357, 56832}
PasswordAlphabet == {112, 55357, 56832, ReplacementChar}

SeqsUpTo(S, n) == UNION {[1..m -> S] : m \in 0..n}

Texts == SeqsUpTo(TextAlphabet, MaxTextLen)
Passwords == SeqsUpTo(PasswordAlphabet, MaxPasswordLen)

(***************************************************************************)
(* src/services/api.ts and the form of CreatePaste.                        *)
(*                                                                         *)
(* Time is counted in minutes.  Date.setHours, setDate and setMinutes work *)
(* on local time; the model takes a time zone without clock changes.       *)
(***************************************************************************)
MinutesPerHour == 60
MinutesPerDay == 1440

endsWith(s, c) == s # <<>> /\ s[Len(s)] = c

\* The time of new Date(now) after setHours / setDate / setMinutes, or NaN
\* (an invalid Date) when parseInt(ttl) is NaN.
ttlToExpiresAt(ttl, t) ==
  LET value == parseInt(ttl, 0)
  IN IF endsWith(ttl, 104) THEN
       IF value = NaN THEN NaN ELSE t + MinutesPerHour * value
     ELSE IF endsWith(ttl, 100) THEN
       IF value = NaN THEN NaN ELSE t + MinutesPerDay * value
     ELSE IF endsWith(ttl, 109) THEN
       IF value = NaN THEN NaN ELSE t + value
     ELSE t + MinutesPerHour * 24

\* The record createPaste writes.
PasteData(ciphertext, expiresAt, hasPassword) ==
  [ciphertext |-> ciphertext, expiresAt |-> expiresAt,
   hasPassword |-> hasPassword]

\* IsExpired with the comparison one minute late.
IsExpired_Late(paste, t) == paste.expiresAt + 1 < t

\* fetchPaste: new Date(paste.expiresAt) < new Date().
IsExpired(paste, t) == paste.expiresAt < t

\* fetchPaste: a record read back without hasPassword gets hasPassword = false.
ParsePaste(json) ==
  IF "hasPassword" \in DOMAIN json THEN json
  ELSE PasteData(json.ciphertext, json.expiresAt, FALSE)

\* String.prototype.trim.
RECURSIVE TrimEnd(_)
TrimEnd(s) ==
  IF s # <<>> /\ s[Len(s)] \in StrWhiteSpace
  THEN TrimEnd(SubSeq(s, 1, Len(s) - 1)) ELSE s

\* trim removing nothing.
trim_None(s) == s

trim(s) == TrimEnd(SkipWhiteSpace(s))

\* The options of the ttl select: "1h", "6h", "24h", "7d", "30d".
TtlOptions ==
  {<<49, 104>>, <<54, 104>>, <<50, 52, 104>>, <<55, 100>>, <<51, 48, 100>>}

\* The values Math.random().toString(36).substring(2, 10) can take stand as
\* 1..NumIds.
IdPool == 1..NumIds

\* What the user can have typed into the content and password fields.
Contents == {<<>>, <<32>>, <<97>>}
FormPasswords == {<<>>, <<32>>, <<112>>}

\* The values the random source returns to the page.
PageKeys == {generateKey(n) : n \in 1..NumPageRandom}
PageIvs == {RandomBytes(IvBytes, n) : n \in 1..NumPageRandom}
PageSalts == {RandomBytes(SaltBytes, 2 * n + 1) : n \in 1..NumPageRandom}

ContentEmptyError == "Content cannot be empty"
PasswordEmptyError ==
  "Password cannot be empty when password protection is enabled"
QuotaExceededError == "QuotaExceededError"

(***************************************************************************)
(* What the code writes to the console.  An entry is the label of a        *)
(* console.log or console.error call with a string the call prints after   *)
(* it; for an argument that is a number, a boolean, an id or an error      *)
(* object the entry carries the empty string.                              *)
(***************************************************************************)
LogEntry(label, value) == [label |-> label, value |-> value]

\* encryptWithPassword: crypto.ts lines 116 and 136.
EncryptWithPasswordLog(salt, iv) ==
  {LogEntry("Encrypting with password. Salt:", arrayBufferToHex(salt)),
   LogEntry("IV:", arrayBufferToHex(iv)),
   LogEntry("Encryption complete. Ciphertext length:", <<>>)}

\* decrypt: console.error in the catch block.
DecryptLog(result) ==
  IF ~result.ok /\ result.err = KeyedDecryptError
  THEN {LogEntry("Decryption failed:", <<>>)} ELSE {}

\* decryptWithPassword: crypto.ts lines 175-178, 199 and 203.
DecryptWithPasswordLog(ciphertext, result) ==
  {LogEntry("Decrypting with password", <<>>),
   LogEntry("Salt:", substring(ciphertext, 0, SaltHexLen)),
   LogEntry("IV:", substring(ciphertext, SaltHexLen, SaltIvHexLen)),
   LogEntry("Encrypted data length:", <<>>),
   IF result.ok THEN LogEntry("Decryption successful, plaintext length:", <<>>)
   ELSE LogEntry("Decryption with password failed:", <<>>)}

\* createPaste: nothing if ttlToExpiresAt throws, the first line only if
\* setItem throws.
CreatePasteLog(pasteData, stored) ==
  IF pasteData.expiresAt = NaN THEN {}
  ELSE {LogEntry("Creating paste with hasPassword:", <<>>)}
         \cup (IF stored
               THEN {LogEntry("Paste created with ID:", <<>>),
                     LogEntry("Paste data:", pasteData.ciphertext)}
               ELSE {})

\* fetchPaste.
FetchPasteLog(storage, id, t) ==
  {LogEntry("Fetching paste with ID:", <<>>)}
    \cup (IF id \notin DOMAIN storage
          THEN {LogEntry("Paste not found in localStorage", <<>>)}
          ELSE {LogEntry("Retrieved paste:", storage[id].ciphertext)}
                 \cup (IF IsExpired(ParsePaste(storage[id]), t)
                       THEN {LogEntry("Paste has expired, deleting", <<>>)}
                       ELSE {}))

(***************************************************************************)
(* State.                                                                  *)
(***************************************************************************)
VARIABLES
  \* One use of the crypto functions, from the plaintext to the result of
  \* the decryption.
  cPhase,      \* "input", "encrypted" or "decrypted"
  cText,       \* the plaintext handed to the encryption
  cMode,       \* "none", "keyed" (encrypt) or "password" (encryptWithPassword)
  cSecret,     \* the key string or password the encryption was given
  cEnvelope,   \* what the encryption returned
  cGiven,      \* the envelope string handed to the decryption
  cFlipped,    \* whether cGiven was altered after the encryption
  cDecSecret,  \* the key string or password the decryption was given
  cOutput,     \* what the decryption returned
  \* The application.
  now,           \* the clock, in minutes
  localStorage,  \* id -> the record stored under pastebin_<id>
  submit,        \* the invocation of handleSubmit in flight
  isSubmitting,  \* CreatePaste state
  error,         \* CreatePaste state, "" for null
  location,      \* where navigate has led
  submissions,   \* history: the createPaste calls of handleSubmit
  nSubmitted,    \* history: the number of handleSubmit calls
  lastFetch,     \* history: the fetchPaste call of the last step, if it was one
  \* The documented PHP backend, beside localStorage.
  backend,       \* id -> the row of table pastes
  nPuts,         \* history: the number of puts
  lastGet,       \* history: the get of the last step, answered by both stores
  \* The random source behind getRandomValues, read as a stream.
  drawn,         \* the number of getRandomValues calls so far
  calls,         \* history: the encrypt and encryptWithPassword calls
  \* ViewPaste with its hooks useFetchPaste and useCrypto.
  view,          \* the state of the mounted component
  attempts,      \* history: the decryption calls the component has made
  \* The console.
  console        \* what the last step wrote with console.log/console.error

cryptoVars ==
  <<cPhase, cText, cMode, cSecret, cEnvelope, cGiven, cFlipped, cDecSecret,
    cOutput>>

pageVars == <<submit, isSubmitting, error, location, submissions, nSubmitted>>

storeVars == <<now, localStorage, lastFetch>>

backendVars == <<backend, nPuts, lastGet>>

rngVars == <<drawn, calls>>

viewVars == <<view, attempts>>

vars ==
  <<cryptoVars, pageVars, storeVars, backendVars, rngVars, viewVars, console>>

NoResult == Rejected("none")

EmptyMap == [i \in {} |-> 0]

Idle ==
  [pc |-> "idle", content |-> <<>>, ttl |-> <<>>, usePassword |-> FALSE,
   password |-> <<>>]

NoFetch == [called |-> FALSE, id |-> 0, at |-> 0, before |-> {}, result |-> {}]
NoGet == [called |-> FALSE, id |-> 0, at |-> 0, local |-> {}, remote |-> {}]
NoLocation == [path |-> 0, hash |-> <<>>]

\* No ViewPaste is mounted.
NoView ==
  [mounted |-> FALSE, id |-> 0, key |-> <<>>, paste |-> {}, loading |-> FALSE,
   fetchError |-> "", content |-> <<>>, decryptionError |-> "",
   showPasswordPrompt |-> FALSE, isDecrypting |-> FALSE,
   isProcessing |-> FALSE, cryptoError |-> "", fetchPending |-> FALSE,
   effectPending |-> FALSE, inFlight |-> "none", password |-> <<>>,
   submits |-> 0, fetches |-> <<>>, renders |-> 0,
   operations |-> {}, started |-> 0]

CryptoIdle ==
  /\ cPhase = "input"
  /\ cText = <<>>
  /\ cMode = "none"
  /\ cSecret = <<>>
  /\ cEnvelope = NoResult
  /\ cGiven = <<>>
  /\ cFlipped = FALSE
  /\ cDecSecret = <<>>
  /\ cOutput = NoResult

AppInit ==
  /\ now = 0
  /\ localStorage = EmptyMap
  /\ submit = Idle
  /\ isSubmitting = FALSE
  /\ error = ""
  /\ location = NoLocation
  /\ submissions = {}
  /\ nSubmitted = 0
  /\ lastFetch = NoFetch
  /\ backend = EmptyMap
  /\ nPuts = 0
  /\ lastGet = NoGet
  /\ drawn = 0
  /\ calls = <<>>
  /\ view = NoView
  /\ attempts = <<>>
  /\ console = {}

appVars == <<pageVars, storeVars, backendVars, rngVars, viewVars>>

(***************************************************************************)
(* The crypto functions on their own.                                      *)
(***************************************************************************)
CryptoInit ==
  /\ cPhase = "input"
  /\ cText \in Texts
  /\ cMode = "none"
  /\ cSecret = <<>>
  /\ cEnvelope = NoResult
  /\ cGiven = <<>>
  /\ cFlipped = FALSE
  /\ cDecSecret = <<>>
  /\ cOutput = NoResult
  /\ AppInit

\* encrypt(cText, hexKey), the random source returning iv.
Encrypt(hexKey, iv) ==
  /\ cPhase = "input"
  /\ cPhase' = "encrypted"
  /\ cMode' = "keyed"
  /\ cSecret' = hexKey
  /\ cEnvelope' = encrypt(cText, hexKey, iv)
  /\ cGiven' = cEnvelope'.val
  /\ console' = {}
  /\ UNCHANGED <<cText, cFlipped, cDecSecret, cOutput>>
  /\ UNCHANGED appVars

\* encryptWithPassword(cText, password), the random source returning salt, iv.
EncryptWithPassword(password, salt, iv) ==
  /\ cPhase = "input"
  /\ cPhase' = "encrypted"
  /\ cMode' = "password"
  /\ cSecret' = password
  /\ cEnvelope' = encryptWithPassword(cText, password, salt, iv)
  /\ cGiven' = cEnvelope'.val
  /\ console' = EncryptWithPasswordLog(salt, iv)
  /\ UNCHANGED <<cText, cFlipped, cDecSecret, cOutput>>
  /\ UNCHANGED appVars

\* One bit of one character of an envelope returned by encrypt is inverted
\* before the envelope is handed to decrypt.
FlipOneBit(pos, bit) ==
  /\ cPhase = "encrypted"
  /\ cMode = "keyed"
  /\ cEnvelope.ok
  /\ cSecret \in GeneratedKeys
  /\ ~cFlipped
  /\ pos \in 1..Len(cGiven)
  /\ cGiven' = [cGiven EXCEPT ![pos] = FlipBit(@, bit)]
  /\ cFlipped' = TRUE
  /\ console' = {}
  /\ UNCHANGED <<cPhase, cText, cMode, cSecret, cEnvelope, cDecSecret, cOutput>>
  /\ UNCHANGED appVars

\* decrypt(cGiven, hexKey).
Decrypt(hexKey) ==
  /\ cPhase = "encrypted"
  /\ cMode = "keyed"
  /\ cEnvelope.ok
  /\ cFlipped => hexKey = cSecret
  /\ cPhase' = "decrypted"
  /\ cDecSecret' = hexKey
  /\ cOutput' = decrypt(cGiven, hexKey)
  /\ console' = DecryptLog(cOutput')
  /\ UNCHANGED <<cText, cMode, cSecret, cEnvelope, cGiven, cFlipped>>
  /\ UNCHANGED appVars

\* decryptWithPassword(cGiven, password).
DecryptWithPassword(password) ==
  /\ cPhase = "encrypted"
  /\ cMode = "password"
  /\ cEnvelope.ok
  /\ cPhase' = "decrypted"
  /\ cDecSecret' = password
  /\ cOutput' = decryptWithPassword(cGiven, password)
  /\ console' = DecryptWithPasswordLog(cGiven, cOutput')
  /\ UNCHANGED <<cText, cMode, cSecret, cEnvelope, cGiven, cFlipped>>
  /\ UNCHANGED appVars

\* The longest envelope a text of the model yields (4 UTF-8 bytes per code
\* unit at most).
MaxEnvelopeLen == SaltIvHexLen + 2 * (4 * MaxTextLen + TagBytes)

CryptoNext ==
  \/ \E k \in KeyStrings, iv \in IvPool : Encrypt(k, iv)
  \/ \E w \in Passwords, salt \in SaltPool, iv \in IvPool :
       EncryptWithPassword(w, salt, iv)
  \/ \E k \in KeyStrings : Decrypt(k)
  \/ \E w \in Passwords : DecryptWithPassword(w)

\* Encryption and decryption of every text under every key string and
\* password of the model.
SpecCrypto == CryptoInit /\ [][CryptoNext]_vars

TamperInit == CryptoInit /\ Len(cText) <= MaxTamperTextLen

TamperNext ==
  \/ \E k \in GeneratedKeys, iv \in IvPool : Encrypt(k, iv)
  \/ \E pos \in 1..MaxEnvelopeLen, bit \in 0..(CodeUnitBits - 1) :
       FlipOneBit(pos, bit)
  \/ \E k \in GeneratedKeys : Decrypt(k)

\* Keyed encryption, one inverted bit in the envelope, keyed decryption.
SpecTamper == TamperInit /\ [][TamperNext]_vars

(***************************************************************************)
(* localStorage and src/services/api.ts.                                   *)
(***************************************************************************)
setItem(storage, id, data) ==
  [i \in DOMAIN storage \cup {id} |-> IF i = id THEN data ELSE storage[i]]

removeItem(storage, id) == [i \in DOMAIN storage \ {id} |-> storage[i]]

\* What fetchPaste(id) returns at time t: {} for null, {paste} for a paste.
FetchResult(storage, id, t) ==
  IF id \notin DOMAIN storage THEN {}
  ELSE LET paste == ParsePaste(storage[id])
       IN IF IsExpired(paste, t) THEN {} ELSE {paste}

\* FetchEffect removing every expired record.
FetchEffect_Sweep(storage, id, t) ==
  [i \in {j \in DOMAIN storage : ~IsExpired(ParsePaste(storage[j]), t)} |->
     storage[i]]

\* What fetchPaste(id) leaves in localStorage.
FetchEffect(storage, id, t) ==
  IF id \in DOMAIN storage /\ IsExpired(ParsePaste(storage[id]), t)
  THEN removeItem(storage, id) ELSE storage

fetchPaste(id) ==
  /\ lastFetch' =
       [called |-> TRUE, id |-> id, at |-> now,
        before |-> IF id \in DOMAIN localStorage THEN {localStorage[id]} ELSE {},
        result |-> FetchResult(localStorage, id, now)]
  /\ localStorage' = FetchEffect(localStorage, id, now)
  /\ console' = FetchPasteLog(localStorage, id, now)
  /\ UNCHANGED <<now, pageVars, backendVars, cryptoVars, rngVars, viewVars>>

\* The clock moves on.  The instants tried are those just before, at and
\* just after the expiry of a stored paste.
ExpiryTimes ==
  {localStorage[i].expiresAt : i \in DOMAIN localStorage}
    \cup {backend[i].expiresAt : i \in DOMAIN backend}

ClockTargets == {e + d : e \in ExpiryTimes, d \in {-1, 0, 1}}

AdvanceClock(t) ==
  /\ t > now
  /\ now' = t
  /\ lastFetch' = NoFetch
  /\ lastGet' = NoGet
  /\ console' = {}
  /\ UNCHANGED <<localStorage, pageVars, backend, nPuts, cryptoVars, rngVars,
                 viewVars>>

(***************************************************************************)
(* CreatePaste.handleSubmit.                                               *)
(***************************************************************************)
\* The arguments of createPaste in the two branches, given what is in scope.
PasswordCreateArgs(ciphertext, content, password, ttl) ==
  [ciphertext |-> ciphertext, ttl |-> ttl, hasPassword |-> TRUE]

\* KeyedCreateArgs handing over the content in place of the ciphertext.
KeyedCreateArgs_Plain(ciphertext, key, content, ttl) ==
  [ciphertext |-> content, ttl |-> ttl, hasPassword |-> FALSE]

KeyedCreateArgs(ciphertext, key, content, ttl) ==
  [ciphertext |-> ciphertext, ttl |-> ttl, hasPassword |-> FALSE]

\* The targets of navigate in the two branches: /p/<id> and /p/<id>#<key>.
PasswordViewUrl(id) == [path |-> id, hash |-> <<>>]
\* KeyedViewUrl without the fragment.
KeyedViewUrl_NoKey(id, key) == [path |-> id, hash |-> <<>>]

KeyedViewUrl(id, key) == [path |-> id, hash |-> key]

\* Validation, then the start of the encryption.
handleSubmit(content, ttl, usePassword, password) ==
  /\ submit.pc = "idle"
  /\ nSubmitted < MaxSubmits
  /\ nSubmitted' = nSubmitted + 1
  /\ IF trim(content) = <<>> THEN
       /\ error' = ContentEmptyError
       /\ UNCHANGED <<submit, isSubmitting>>
     ELSE IF usePassword /\ trim(password) = <<>> THEN
       /\ error' = PasswordEmptyError
       /\ UNCHANGED <<submit, isSubmitting>>
     ELSE
       /\ error' = ""
       /\ isSubmitting' = TRUE
       /\ submit' = [pc |-> "encrypting", content |-> content, ttl |-> ttl,
                     usePassword |-> usePassword, password |-> password]
  /\ lastFetch' = NoFetch
  /\ console' = {}
  /\ UNCHANGED <<location, submissions, now, localStorage, backendVars,
                 cryptoVars, rngVars, viewVars>>

\* CreateAndNavigate with navigate outside the try block.
CreateAndNavigate_Anyway(args, id, quotaOk, url, producedBy, key, encryptLog) ==
  LET expiresAt == ttlToExpiresAt(args.ttl, now)
      pasteData == PasteData(args.ciphertext, expiresAt, args.hasPassword)
      done == expiresAt # NaN /\ quotaOk
  IN /\ localStorage' =
          IF done THEN setItem(localStorage, id, pasteData) ELSE localStorage
     /\ location' = url
     /\ error' = IF done THEN error
                 ELSE IF expiresAt = NaN THEN "Invalid time value"
                 ELSE QuotaExceededError
     /\ isSubmitting' = FALSE
     /\ submit' = Idle
     /\ submissions' =
          submissions \cup
                {[args |-> args, id |-> id, stored |-> done,
                  url |-> IF done THEN url ELSE NoLocation,
                  producedBy |-> producedBy, key |-> key,
                  password |-> IF submit.usePassword THEN submit.password
                               ELSE <<>>,
                  content |-> submit.content]}
     /\ lastFetch' = NoFetch
     /\ console' = encryptLog \cup CreatePasteLog(pasteData, done)
     /\ UNCHANGED <<now, nSubmitted, backendVars, cryptoVars, rngVars, viewVars>>

\* The rest of handleSubmit once the encryption has resolved: createPaste
\* (generateId returning id, setItem succeeding or exceeding the quota),
\* navigate, and the finally block.
CreateAndNavigate(args, id, quotaOk, url, producedBy, key, encryptLog) ==
  LET expiresAt == ttlToExpiresAt(args.ttl, now)
      pasteData == PasteData(args.ciphertext, expiresAt, args.hasPassword)
      done == expiresAt # NaN /\ quotaOk
  IN /\ localStorage' =
          IF done THEN setItem(localStorage, id, pasteData) ELSE localStorage
     /\ location' = IF done THEN url ELSE location
     /\ error' = IF done THEN error
                 ELSE IF expiresAt = NaN THEN "Invalid time value"
                 ELSE QuotaExceededError
     /\ isSubmitting' = FALSE
     /\ submit' = Idle
     /\ submissions' =
          submissions \cup
                {[args |-> args, id |-> id, stored |-> done,
                  url |-> IF done THEN url ELSE NoLocation,
                  producedBy |-> producedBy, key |-> key,
                  password |-> IF submit.usePassword THEN submit.password
                               ELSE <<>>,
                  content |-> submit.content]}
     /\ lastFetch' = NoFetch
     /\ console' = encryptLog \cup CreatePasteLog(pasteData, done)
     /\ UNCHANGED <<now, nSubmitted, backendVars, cryptoVars, rngVars, viewVars>>

\* usePassword: encryptWithPassword has resolved.
SubmitWithPassword(salt, iv, id, quotaOk) ==
  /\ submit.pc = "encrypting"
  /\ submit.usePassword
  /\ LET ciphertext ==
           encryptWithPassword(submit.content, submit.password, salt, iv).val
     IN CreateAndNavigate(
          PasswordCreateArgs(ciphertext, submit.content, submit.password,
                             submit.ttl),
          id, quotaOk, PasswordViewUrl(id), "encryptWithPassword", <<>>,
          EncryptWithPasswordLog(salt, iv))

\* Not usePassword: encryptText (generateKey, then encrypt) has resolved.
SubmitWithKey(key, iv, id, quotaOk) ==
  /\ submit.pc = "encrypting"
  /\ ~submit.usePassword
  /\ LET ciphertext == encrypt(submit.content, key, iv).val
     IN CreateAndNavigate(
          KeyedCreateArgs(ciphertext, key, submit.content, submit.ttl),
          id, quotaOk, KeyedViewUrl(id, key), "encrypt", key, {})

\* The encryption has rejected (the browser lacks the primitive): the catch
\* block and the finally block of handleSubmit.  encryptWithPassword has
\* written its first log line by then.
SubmitEncryptionFailed(salt, iv) ==
  /\ submit.pc = "encrypting"
  /\ error' = NotSupportedError
  /\ isSubmitting' = FALSE
  /\ submit' = Idle
  /\ lastFetch' = NoFetch
  /\ console' = IF submit.usePassword
                THEN {e \in EncryptWithPasswordLog(salt, iv) :
                        e.label # "Encryption complete. Ciphertext length:"}
                ELSE {}
  /\ UNCHANGED <<location, submissions, nSubmitted, now, localStorage,
                 backendVars, cryptoVars, rngVars, viewVars>>

Init == CryptoIdle /\ AppInit

Next ==
  \/ \E content \in Contents, ttl \in TtlOptions, usePassword \in BOOLEAN,
        password \in FormPasswords :
       handleSubmit(content, ttl, usePassword, password)
  \/ \E salt \in PageSalts, iv \in PageIvs, id \in IdPool,
        quotaOk \in BOOLEAN :
       SubmitWithPassword(salt, iv, id, quotaOk)
  \/ \E key \in PageKeys, iv \in PageIvs, id \in IdPool,
        quotaOk \in BOOLEAN :
       SubmitWithKey(key, iv, id, quotaOk)
  \/ \E salt \in PageSalts, iv \in PageIvs : SubmitEncryptionFailed(salt, iv)
  \/ \E id \in IdPool : fetchPaste(id)
  \/ \E t \in ClockTargets : AdvanceClock(t)

\* Pastes are created and fetched while the clock moves on.
Spec == Init /\ [][Next]_vars

(***************************************************************************)
(* The PHP backend of PHP_BACKEND.md (class Paste, table pastes) beside    *)
(* localStorage: both are given the same puts and the same gets.           *)
(***************************************************************************)
\* Paste::create: INSERT INTO pastes; a second row with the same primary key
\* is refused.
BackendCreate(rows, id, ciphertext, expiresAt, hasPassword) ==
  IF id \in DOMAIN rows THEN rows
  ELSE setItem(rows, id, PasteData(ciphertext, expiresAt, hasPassword))

\* Paste::read: SELECT ... WHERE id = :id AND expires_at > NOW().
BackendRead(rows, id, t) ==
  IF id \in DOMAIN rows /\ rows[id].expiresAt > t THEN {rows[id]} ELSE {}

\* Paste::deleteExpired: DELETE FROM pastes WHERE expires_at <= NOW().
BackendDeleteExpired(rows, t) ==
  [i \in {k \in DOMAIN rows : ~(rows[k].expiresAt <= t)} |-> rows[i]]

\* The envelopes put: what encrypt returns for the text "a".
PutEnvelopes == {encrypt(<<97>>, key, iv).val : key \in PageKeys, iv \in PageIvs}

\* A put of a new paste, under an id not in use.
StorePut(id, ciphertext, ttl, hasPassword) ==
  /\ nPuts < MaxPuts
  /\ id \notin DOMAIN localStorage \cup DOMAIN backend
  /\ nPuts' = nPuts + 1
  /\ LET expiresAt == ttlToExpiresAt(ttl, now)
     IN /\ localStorage' =
             setItem(localStorage, id, PasteData(ciphertext, expiresAt, hasPassword))
        /\ backend' = BackendCreate(backend, id, ciphertext, expiresAt, hasPassword)
  /\ lastFetch' = NoFetch
  /\ lastGet' = NoGet
  /\ console' =
       CreatePasteLog(PasteData(ciphertext, ttlToExpiresAt(ttl, now), hasPassword),
                      TRUE)
  /\ UNCHANGED <<now, pageVars, cryptoVars, rngVars, viewVars>>

StoreGet(id) ==
  /\ lastGet' = [called |-> TRUE, id |-> id, at |-> now,
                 local |-> FetchResult(localStorage, id, now),
                 remote |-> BackendRead(backend, id, now)]
  /\ localStorage' = FetchEffect(localStorage, id, now)
  /\ lastFetch' = NoFetch
  /\ console' = FetchPasteLog(localStorage, id, now)
  /\ UNCHANGED <<now, backend, nPuts, pageVars, cryptoVars, rngVars, viewVars>>

\* cron_cleanup.php.
Purge ==
  /\ backend' = BackendDeleteExpired(backend, now)
  /\ backend' # backend
  /\ lastFetch' = NoFetch
  /\ lastGet' = NoGet
  /\ console' = {}
  /\ UNCHANGED <<now, localStorage, nPuts, pageVars, cryptoVars, rngVars,
                 viewVars>>

StoresNext ==
  \/ \E id \in IdPool, ciphertext \in PutEnvelopes, ttl \in TtlOptions,
        hasPassword \in BOOLEAN :
       StorePut(id, ciphertext, ttl, hasPassword)
  \/ \E id \in IdPool : StoreGet(id)
  \/ \E t \in ClockTargets : AdvanceClock(t)
  \/ Purge

\* The two stores under the same puts, gets and clock.
SpecStores == Init /\ [][StoresNext]_vars

(***************************************************************************)
(* Properties of the crypto functions.                                     *)
(***************************************************************************)
KeyedRoundTripCase ==
  /\ cPhase = "decrypted"
  /\ cMode = "keyed"
  /\ cSecret \in GeneratedKeys
  /\ cDecSecret = cSecret
  /\ ~cFlipped

PasswordRoundTripCase ==
  /\ cPhase = "decrypted"
  /\ cMode = "password"
  /\ cDecSecret = cSecret

\* A string TextEncoder and TextDecoder carry unchanged: every surrogate is
\* part of a pair and the first code unit is not U+FEFF.
WellFormed(str) ==
  \A i \in 1..Len(str) :
    /\ IsHighSurrogate(str[i]) => i < Len(str) /\ IsLowSurrogate(str[i + 1])
    /\ IsLowSurrogate(str[i]) => i > 1 /\ IsHighSurrogate(str[i - 1])

Lossless(str) == WellFormed(str) /\ (str = <<>> \/ str[1] # ByteOrderMark)

\* C1: for every plaintext P and every key K returned by generateKey,
\* decrypt(encrypt(P, K), K) succeeds and returns exactly P.
C1_KeyedRoundTrip ==
  KeyedRoundTripCase => cOutput.ok /\ cOutput.val = cText

\* What the code does guarantee (under SpecCrypto): the keyed round trip
\* succeeds, and returns P when the text codec is lossless on P.
KeyedRoundTripLossless ==
  KeyedRoundTripCase =>
    /\ cOutput.ok
    /\ Lossless(cText) => cOutput.val = cText

\* C2: for every plaintext P and every password W,
\* decryptWithPassword(encryptWithPassword(P, W), W) succeeds and returns
\* exactly P.
C2_PasswordRoundTrip ==
  PasswordRoundTripCase => cOutput.ok /\ cOutput.val = cText

PasswordRoundTripLossless ==
  PasswordRoundTripCase =>
    /\ cOutput.ok
    /\ Lossless(cText) => cOutput.val = cText

\* C3: for every envelope E returned by encrypt(P, K) and every E' obtained
\* from E by inverting one bit of one character, decrypt(E', K) fails with
\* the decryption error; it never returns a plaintext.
C3_TamperDetected ==
  (cPhase = "decrypted" /\ cFlipped /\ cDecSecret = cSecret) =>
    ~cOutput.ok /\ cOutput.err = KeyedDecryptError

\* What the code does guarantee (under SpecTamper): a flipped bit that
\* changes a byte hexToArrayBuffer reads is rejected.
TamperedBytesDetected ==
  (cPhase = "decrypted" /\ cFlipped /\ cDecSecret = cSecret
     /\ hexToArrayBuffer(cGiven) # hexToArrayBuffer(cEnvelope.val)) =>
    ~cOutput.ok /\ cOutput.err = KeyedDecryptError

\* C4: for every plaintext P and every pair of key strings K1 # K2,
\* decrypt(encrypt(P, K1), K2) fails with the decryption error and never
\* returns a plaintext.
C4_WrongKeyRejected ==
  (cPhase = "decrypted" /\ cMode = "keyed" /\ ~cFlipped
     /\ cDecSecret # cSecret) =>
    ~cOutput.ok /\ cOutput.err = KeyedDecryptError

\* What the code does guarantee (under SpecCrypto): a key string that
\* imports to other key bytes is rejected.
WrongKeyBytesRejected ==
  (cPhase = "decrypted" /\ cMode = "keyed" /\ ~cFlipped
     /\ importKey(cDecSecret).ok
     /\ importKey(cDecSecret).val # importKey(cSecret).val) =>
    ~cOutput.ok /\ cOutput.err = KeyedDecryptError

\* C5: for every plaintext P and every pair of passwords W1 # W2,
\* decryptWithPassword(encryptWithPassword(P, W1), W2) fails and never
\* returns a plaintext.
C5_WrongPasswordRejected ==
  (cPhase = "decrypted" /\ cMode = "password" /\ cDecSecret # cSecret) =>
    ~cOutput.ok

\* What the code does guarantee (under SpecCrypto): a password with other
\* UTF-8 bytes is rejected.
WrongPasswordBytesRejected ==
  (cPhase = "decrypted" /\ cMode = "password"
     /\ strToUint8Array(cDecSecret) # strToUint8Array(cSecret)) =>
    ~cOutput.ok /\ cOutput.err = PasswordDecryptError

(***************************************************************************)
(* Properties of the paste store and of CreatePaste.                       *)
(***************************************************************************)
RecordFields == {"ciphertext", "expiresAt", "hasPassword"}

\* The secrets of a submission: its plaintext, its key, its password.
Secrets(s) ==
  {s.content} \cup (IF s.key # <<>> THEN {s.key} ELSE {})
    \cup (IF s.password # <<>> THEN {s.password} ELSE {})

AllSecrets == UNION {Secrets(s) : s \in submissions}

\* C6: the key and the password are never part of what is written to the
\* paste store: every stored record holds only ciphertext, expiresAt and
\* hasPassword, and no argument of a createPaste call and no stored
\* ciphertext is a key, a password or a plaintext.
C6_NoSecretStored ==
  /\ \A id \in DOMAIN localStorage :
       /\ DOMAIN localStorage[id] = RecordFields
       /\ localStorage[id].ciphertext \notin AllSecrets
  /\ \A s \in submissions :
       /\ DOMAIN s.args = {"ciphertext", "ttl", "hasPassword"}
       /\ s.args.ciphertext \notin AllSecrets
       /\ s.args.ttl \notin AllSecrets

\* A keyed and a password-protected paste are both in the store.
C6_Witness ==
  /\ \E s \in submissions :
       s.stored /\ s.key # <<>> /\ s.id \in DOMAIN localStorage
         /\ localStorage[s.id].ciphertext = s.args.ciphertext
  /\ \E s \in submissions :
       s.stored /\ s.password # <<>> /\ s.id \in DOMAIN localStorage
         /\ localStorage[s.id].ciphertext = s.args.ciphertext

\* C7: a paste is stored with hasPassword = true exactly when its envelope
\* was produced by encryptWithPassword (and then opens with the password,
\* else with the key of the view URL), and the view URL the creator is sent
\* to carries a key fragment exactly when hasPassword = false.
C7_ModeConsistent ==
  /\ \A s \in submissions :
       /\ s.args.hasPassword <=> s.producedBy = "encryptWithPassword"
       /\ s.stored => ((s.url.hash # <<>>) <=> ~s.args.hasPassword)
       /\ s.stored /\ s.args.hasPassword =>
            decryptWithPassword(s.args.ciphertext, s.password).ok
       /\ s.stored /\ ~s.args.hasPassword =>
            decrypt(s.args.ciphertext, s.url.hash).ok
  /\ \A id \in DOMAIN localStorage :
       \E s \in submissions :
         /\ s.stored
         /\ s.id = id
         /\ s.args.ciphertext = localStorage[id].ciphertext
         /\ s.args.hasPassword = localStorage[id].hasPassword
  /\ location # NoLocation =>
       \E s \in submissions : s.stored /\ s.url = location

\* The creator of a password-protected paste was sent to a URL without a
\* fragment, the creator of a keyed paste to one with the key.
C7_Witness ==
  /\ \E s \in submissions :
       s.stored /\ s.args.hasPassword /\ s.url.hash = <<>>
  /\ \E s \in submissions :
       s.stored /\ ~s.args.hasPassword /\ s.url.hash = s.key /\ s.key # <<>>

\* C8: a fetchPaste(id) issued after the expiresAt of the stored paste
\* returns null, one issued before it returns the stored record; with no
\* record in storage it returns null.
C8_ExpiryOnRead ==
  lastFetch.called =>
    /\ lastFetch.before = {} => lastFetch.result = {}
    /\ \A r \in lastFetch.before :
         /\ lastFetch.at > r.expiresAt => lastFetch.result = {}
         /\ lastFetch.at < r.expiresAt => lastFetch.result = {r}

\* A paste still in storage was fetched after its expiry.
C8_Witness ==
  /\ lastFetch.called
  /\ \E r \in lastFetch.before : lastFetch.at > r.expiresAt

\* C9: the localStorage store, which expires lazily inside fetchPaste, and
\* the backend store, which filters with expires_at > NOW() and is purged
\* periodically, return the same result for every get.
C9_StoresAgree == lastGet.called => lastGet.local = lastGet.remote

\* What the two stores do guarantee (under SpecStores): they agree on every
\* get except at the instant now = expiresAt.
StoresAgreeOffBoundary ==
  (lastGet.called
     /\ \A r \in lastGet.local \cup lastGet.remote : r.expiresAt # lastGet.at)
    => lastGet.local = lastGet.remote

\* C10: once createPaste has stored a record under an id, no later step
\* changes that record's ciphertext, expiresAt or hasPassword; the record
\* can only disappear.
C10_Immutable ==
  [][\A id \in DOMAIN localStorage \cap DOMAIN localStorage' :
       localStorage'[id] = localStorage[id]]_vars

\* What the code does guarantee (under Spec): fetchPaste and the clock
\* change no record; only a createPaste that draws a stored id does.
ImmutableButForCreate ==
  [][(\E id \in DOMAIN localStorage \cap DOMAIN localStorage' :
        localStorage'[id] # localStorage[id])
       => submit.pc = "encrypting" /\ submit'.pc = "idle"]_vars

(***************************************************************************)
(* Expiry and deletion.                                                    *)
(***************************************************************************)
\* Time passes whatever the users do; nothing obliges anyone to fetch.
SpecExpire ==
  Init /\ [][Next]_vars /\ WF_vars(\E t \in ClockTargets : AdvanceClock(t))

\* The record stored under id is past its expiresAt.
ExpiredRecord(id) ==
  id \in DOMAIN localStorage /\ localStorage[id].expiresAt < now

\* C11: once the expiresAt of a paste has passed, its record is eventually
\* removed from storage, and a fetchPaste that returned null because of the
\* expiry leaves no record behind for a later fetchPaste to return.
C11_ExpiredDeleted ==
  /\ \A id \in IdPool : ExpiredRecord(id) ~> ~ExpiredRecord(id)
  /\ [][\A id \in IdPool :
          (lastFetch'.called /\ lastFetch'.id = id /\ lastFetch'.before # {}
             /\ lastFetch'.result = {})
          => id \notin DOMAIN localStorage']_vars

\* The part of C11 that fetchPaste itself ensures: a fetchPaste that finds an
\* expired record returns null and removes the record.
ExpiredFetchRemoves ==
  [][\A id \in IdPool :
       (lastFetch'.called /\ lastFetch'.id = id /\ lastFetch'.before # {}
          /\ lastFetch'.result = {})
       => id \notin DOMAIN localStorage']_vars

(***************************************************************************)
(* Successive encryptions.  window.crypto.getRandomValues is read as a     *)
(* stream: its n-th call returns the n-th block of the stream, and no two  *)
(* blocks of the stream are equal.                                         *)
(***************************************************************************)
getRandomValues(len, n) == RandomBytes(len, n)

\* encrypt, line 92, as a static IV drawn once.
EncryptIv_Reused(n) == getRandomValues(IvBytes, 1)

\* encrypt, line 92: the IV is the next block of the stream.
EncryptIv(n) == getRandomValues(IvBytes, n + 1)

\* encryptWithPassword, lines 113-114: the salt, then the IV.
PasswordSalt(n) == getRandomValues(SaltBytes, n + 1)
PasswordIv(n) == getRandomValues(IvBytes, n + 2)

CallTexts == {<<>>, <<97>>}
CallPasswords == {<<112>>}

\* encrypt(text, hexKey); importKey is awaited before the IV is drawn.
EncryptCall(text, hexKey) ==
  /\ Len(calls) < MaxCalls
  /\ LET result == encrypt(text, hexKey, EncryptIv(drawn))
     IN /\ calls' = Append(calls, [fn |-> "encrypt", secret |-> hexKey,
                                   result |-> result])
        /\ drawn' = IF result.ok THEN drawn + 1 ELSE drawn
  /\ console' = {}
  /\ UNCHANGED <<cryptoVars, pageVars, storeVars, backendVars, viewVars>>

\* encryptWithPassword(text, password).
EncryptWithPasswordCall(text, password) ==
  /\ Len(calls) < MaxCalls
  /\ calls' = Append(calls,
                [fn |-> "encryptWithPassword", secret |-> password,
                 result |-> encryptWithPassword(text, password,
                                                PasswordSalt(drawn),
                                                PasswordIv(drawn))])
  /\ drawn' = drawn + 2
  /\ console' = EncryptWithPasswordLog(PasswordSalt(drawn), PasswordIv(drawn))
  /\ UNCHANGED <<cryptoVars, pageVars, storeVars, backendVars, viewVars>>

RandomNext ==
  \/ \E text \in CallTexts, hexKey \in GeneratedKeys \cup {<<48, 48>>} :
       EncryptCall(text, hexKey)
  \/ \E text \in CallTexts, password \in CallPasswords :
       EncryptWithPasswordCall(text, password)

\* Calls of encrypt and encryptWithPassword, one after the other.
SpecRandom == Init /\ [][RandomNext]_vars

\* The IV and salt fields of the envelope a call returned.
IvField(call) ==
  IF call.fn = "encrypt" THEN substring(call.result.val, 0, IvHexLen)
  ELSE substring(call.result.val, SaltHexLen, SaltIvHexLen)

SaltField(call) == substring(call.result.val, 0, SaltHexLen)

\* C12: every call that returns an envelope has a full-length IV field (and
\* salt field) that differs from those of every earlier call: no IV and no
\* salt is used twice, in particular not by two successive encrypt calls
\* under the same key.
C12_FreshIvAndSalt ==
  \A j \in DOMAIN calls :
    calls[j].result.ok =>
      /\ Len(IvField(calls[j])) = 2 * IvBytes
      /\ calls[j].fn = "encryptWithPassword"
           => Len(SaltField(calls[j])) = 2 * SaltBytes
      /\ \A i \in 1..(j - 1) :
           calls[i].result.ok =>
             /\ IvField(calls[i]) # IvField(calls[j])
             /\ (calls[i].fn = "encryptWithPassword"
                   /\ calls[j].fn = "encryptWithPassword")
                  => SaltField(calls[i]) # SaltField(calls[j])

\* Two successive calls of the same function with the same key or password
\* have returned envelopes, beside a call of the other function.
C12_Witness ==
  \E i \in DOMAIN calls :
    /\ i + 1 \in DOMAIN calls
    /\ calls[i].fn = calls[i + 1].fn
    /\ calls[i].secret = calls[i + 1].secret
    /\ calls[i].result.ok
    /\ calls[i + 1].result.ok
    /\ Len(calls) = MaxCalls
    /\ \E k \in DOMAIN calls : calls[k].fn # calls[i].fn

(***************************************************************************)
(* The shape of the envelopes.                                             *)
(***************************************************************************)
\* The length of the AES-GCM output for a text: its UTF-8 bytes and the tag.
CiphertextLen(text) == Len(strToUint8Array(text)) + TagBytes

\* C13: the string encrypt returns has 24 + 2 * len(ciphertext) characters,
\* the string encryptWithPassword returns 32 + 24 + 2 * len(ciphertext),
\* the ciphertext being the AES-GCM output with its tag.
C13_EnvelopeLength ==
  (cPhase # "input" /\ cEnvelope.ok) =>
    /\ cMode = "keyed"
         => Len(cEnvelope.val) = 24 + 2 * CiphertextLen(cText)
    /\ cMode = "password"
         => Len(cEnvelope.val) = 32 + 24 + 2 * CiphertextLen(cText)

\* An envelope of a text of the greatest length, one of whose bytes is below
\* 16 and so needs its leading zero.
C13_Witness ==
  /\ cPhase = "encrypted"
  /\ cEnvelope.ok
  /\ Len(cText) = MaxTextLen
  /\ \E p \in 1..Len(cEnvelope.val) : p % 2 = 1 /\ cEnvelope.val[p] = 48

(***************************************************************************)
(* useCrypto: decryptText and decryptWithPassword rethrow the message of   *)
(* the error they catch.                                                   *)
(***************************************************************************)
decryptText(ciphertext, key) ==
  LET result == decrypt(ciphertext, key)
  IN IF result.ok THEN result ELSE Rejected(result.err)

hookDecryptWithPassword(ciphertext, password) ==
  LET result == decryptWithPassword(ciphertext, password)
  IN IF result.ok THEN result ELSE Rejected(result.err)

(***************************************************************************)
(* Decryption of strings that are not what the encryption returned.        *)
(***************************************************************************)
\* Characters that are no hex digit: "g", "x" and the space.
NonHexChars == {103, 120, 32}

\* Strings a caller can hand to decrypt without any encryption: "", "abc".
GivenStrings == {<<>>, <<97, 98, 99>>}

IsHexChar(c) ==
  \/ c >= 48 /\ c <= 57
  \/ c >= 97 /\ c <= 102
  \/ c >= 65 /\ c <= 70

\* The envelope is cut to its first n characters before it is decrypted.
Truncate(n) ==
  /\ cPhase = "encrypted"
  /\ cEnvelope.ok
  /\ ~cFlipped
  /\ n < Len(cGiven)
  /\ cGiven' = substring(cGiven, 0, n)
  /\ cFlipped' = TRUE
  /\ console' = {}
  /\ UNCHANGED <<cPhase, cText, cMode, cSecret, cEnvelope, cDecSecret, cOutput>>
  /\ UNCHANGED appVars

\* One character of the envelope is replaced before it is decrypted.
ReplaceChar(pos, c) ==
  /\ cPhase = "encrypted"
  /\ cEnvelope.ok
  /\ ~cFlipped
  /\ pos \in 1..Len(cGiven)
  /\ cGiven[pos] # c
  /\ cGiven' = [cGiven EXCEPT ![pos] = c]
  /\ cFlipped' = TRUE
  /\ console' = {}
  /\ UNCHANGED <<cPhase, cText, cMode, cSecret, cEnvelope, cDecSecret, cOutput>>
  /\ UNCHANGED appVars

\* decrypt(ciphertext, hexKey) of a string the caller supplies.
DecryptString(ciphertext, hexKey) ==
  /\ cPhase = "input"
  /\ cPhase' = "decrypted"
  /\ cMode' = "keyed"
  /\ cGiven' = ciphertext
  /\ cDecSecret' = hexKey
  /\ cOutput' = decrypt(ciphertext, hexKey)
  /\ console' = DecryptLog(cOutput')
  /\ UNCHANGED <<cText, cSecret, cEnvelope, cFlipped>>
  /\ UNCHANGED appVars

DecodeInit == CryptoInit /\ cText \in CallTexts

DecodeNext ==
  \/ \E k \in GeneratedKeys, iv \in IvPool : Encrypt(k, iv)
  \/ \E w \in CallPasswords, salt \in SaltPool, iv \in IvPool :
       EncryptWithPassword(w, salt, iv)
  \/ \E n \in 0..(IvHexLen - 1) : Truncate(n)
  \/ \E pos \in 1..MaxEnvelopeLen, c \in NonHexChars : ReplaceChar(pos, c)
  \/ \E s \in GivenStrings, k \in KeyStrings : DecryptString(s, k)
  \/ \E k \in KeyStrings : Decrypt(k)
  \/ \E w \in Passwords : DecryptWithPassword(w)

\* Envelopes cut short or with a character that is no hex digit, and
\* strings that never were envelopes, handed to the decryption.
SpecDecode == DecodeInit /\ [][DecodeNext]_vars

\* The error the specification names for a string that is no envelope.
MalformedEnvelopeError == "MalformedEnvelopeError"

\* C14: keyed decoding of a string shorter than 24 characters ("", "abc",
\* a cut envelope) fails, and with an error other than the one of a failed
\* authentication.
C14_ShortRejectedAsMalformed ==
  (cPhase = "decrypted" /\ cMode = "keyed" /\ Len(cGiven) < 24) =>
    /\ ~cOutput.ok
    /\ cOutput.err # KeyedDecryptError

\* What the code does ensure for such strings when the key imports: the
\* decryption fails, with the error of a failed authentication.
ShortRejectedAsUndecryptable ==
  (cPhase = "decrypted" /\ cMode = "keyed" /\ Len(cGiven) < 24
     /\ importKey(cDecSecret).ok)
    => cOutput = Rejected(KeyedDecryptError)

HasNonHexChar(s) == \E p \in DOMAIN s : ~IsHexChar(s[p])

\* C15: keyed and passworded decoding of a string with a character outside
\* 0-9a-fA-F fail with the malformed-envelope error.
C15_NonHexRejectedAsMalformed ==
  (cPhase = "decrypted" /\ HasNonHexChar(cGiven))
    => cOutput = Rejected(MalformedEnvelopeError)

\* C16: whenever decrypt fails, whatever the key string and the envelope
\* string, the caller of decrypt and of decryptText sees the one generic
\* error.
C16_OneGenericError ==
  (cPhase = "decrypted" /\ cMode = "keyed" /\ ~cOutput.ok) =>
    /\ cOutput.err = KeyedDecryptError
    /\ decryptText(cGiven, cDecSecret).err = KeyedDecryptError

\* What holds of the failures for key strings that import: a wrong key, a
\* cut envelope and a replaced character in the IV, the ciphertext or the tag
\* all raise the same error.
OneErrorForImportedKeys ==
  (cPhase = "decrypted" /\ cMode = "keyed" /\ ~cOutput.ok
     /\ importKey(cDecSecret).ok)
    => /\ cOutput.err = KeyedDecryptError
       /\ decryptText(cGiven, cDecSecret).err = KeyedDecryptError

(***************************************************************************)
(* ViewPaste (pages/ViewPaste.tsx) with useFetchPaste and useCrypto.       *)
(*                                                                         *)
(* view.key is location.hash.substring(1), the text after the "#".         *)
(* view.fetchPending says that the effect of useFetchPaste has yet to      *)
(* run, view.effectPending that a dependency of the effect of ViewPaste    *)
(* (paste, key, showPasswordPrompt) has changed since its last run, and    *)
(* view.inFlight names the decryption that is awaited.  React runs a       *)
(* pending effect before it handles the next event of the user.            *)
(***************************************************************************)
\* The fragments of the URLs opened: none, the key of the page, another key.
ViewFragments == {<<>>} \cup PageKeys \cup {generateKey(NumPageRandom + 1)}

\* What is typed into the password prompt: a blank, the password of the
\* form, another password.
ViewPasswords == {<<32>>, <<112>>, <<113>>}

NotFoundError == "Paste not found or expired"
ViewKeyedError == "Failed to decrypt: Invalid key or corrupted data"
ViewPasswordError == "Failed to decrypt: Invalid password"

\* The paste useFetchPaste has set.
ViewedPaste == CHOOSE paste \in view.paste : TRUE

\* What ViewPaste renders, by the order of its return statements.
Screen(v) ==
  IF ~v.mounted THEN "none"
  ELSE IF v.loading \/ v.isProcessing THEN "loading"
  ELSE IF v.fetchError # "" \/ v.paste = {} THEN "notFound"
  ELSE IF v.showPasswordPrompt THEN "prompt"
  ELSE IF v.key = <<>> /\ ~(CHOOSE paste \in v.paste : TRUE).hasPassword
    THEN "missingKey"
  ELSE IF v.decryptionError # "" \/ v.cryptoError # "" THEN "error"
  ELSE "content"

\* An entry of the history of decryption calls.
Attempt(fn, trigger, paste, secret, result) ==
  [fn |-> fn, trigger |-> trigger, hasPassword |-> paste.hasPassword,
   ciphertext |-> paste.ciphertext, secret |-> secret, ok |-> result.ok,
   val |-> result.val]

\* /p/<id>#<fragment> is opened: ViewPaste mounts, and its effect runs for
\* the first time with paste = null and returns at once.
OpenView(id, fragment) ==
  /\ ~view.mounted
  /\ view' = [NoView EXCEPT !.mounted = TRUE, !.id = id, !.key = fragment,
                            !.loading = TRUE, !.fetchPending = TRUE]
  /\ attempts' = <<>>
  /\ lastFetch' = NoFetch
  /\ console' = {}
  /\ UNCHANGED <<now, localStorage, pageVars, backendVars, cryptoVars, rngVars>>

\* useFetchPaste: fetchData.
ViewFetch ==
  /\ view.mounted
  /\ view.fetchPending
  /\ LET result == FetchResult(localStorage, view.id, now)
     IN /\ view' = [view EXCEPT
                      !.fetchPending = FALSE,
                      !.loading = FALSE,
                      !.paste = result,
                      !.fetchError = IF result = {} THEN NotFoundError ELSE "",
                      !.effectPending = (result # {})]
        /\ lastFetch' =
             [called |-> TRUE, id |-> view.id, at |-> now,
              before |-> IF view.id \in DOMAIN localStorage
                         THEN {localStorage[view.id]} ELSE {},
              result |-> result]
  /\ localStorage' = FetchEffect(localStorage, view.id, now)
  /\ console' = FetchPasteLog(localStorage, view.id, now)
  /\ UNCHANGED <<now, attempts, pageVars, backendVars, cryptoVars, rngVars>>

\* The effect of ViewPaste, up to the call of decryptText in decryptPaste.
RunEffect ==
  /\ view.mounted
  /\ view.effectPending
  /\ view.paste # {}
  /\ IF ViewedPaste.hasPassword /\ view.key = <<>> THEN
       view' = [view EXCEPT !.showPasswordPrompt = TRUE,
                            !.effectPending = ~view.showPasswordPrompt]
     ELSE IF ~view.showPasswordPrompt /\ view.key # <<>> THEN
       view' = [view EXCEPT !.effectPending = FALSE,
                            !.inFlight = "decryptText",
                            !.isProcessing = TRUE,
                            !.cryptoError = ""]
     ELSE
       view' = [view EXCEPT !.effectPending = FALSE]
  /\ lastFetch' = NoFetch
  /\ console' = {}
  /\ UNCHANGED <<now, localStorage, attempts, pageVars, backendVars,
                 cryptoVars, rngVars>>

\* decryptText has settled: the rest of decryptPaste.
KeyedDone ==
  /\ view.inFlight = "decryptText"
  /\ \E paste \in view.paste,
        result \in {decryptText(ViewedPaste.ciphertext, view.key)} :
     LET settled == [view EXCEPT
                       !.inFlight = "none",
                       !.isProcessing = FALSE,
                       !.cryptoError = IF result.ok THEN "" ELSE result.err]
     IN /\ view' =
             IF result.ok THEN
               [settled EXCEPT !.content = result.val,
                               !.decryptionError = "",
                               !.showPasswordPrompt = FALSE]
             ELSE IF paste.hasPassword THEN
               [settled EXCEPT !.showPasswordPrompt = TRUE,
                               !.effectPending = TRUE]
             ELSE
               [settled EXCEPT !.decryptionError = ViewKeyedError]
        /\ attempts' =
             Append(attempts,
                    Attempt("decryptText", "effect", paste, view.key, result))
        /\ console' = DecryptLog(result)
  /\ lastFetch' = NoFetch
  /\ UNCHANGED <<now, localStorage, pageVars, backendVars, cryptoVars, rngVars>>

\* The password form is submitted with the password typed into it.
handlePasswordSubmit(password) ==
  /\ Screen(view) = "prompt"
  /\ ~view.effectPending
  /\ view.inFlight = "none"
  /\ view.submits < MaxPasswordSubmits
  /\ IF trim(password) = <<>> THEN
       /\ view' = [view EXCEPT !.password = password,
                               !.submits = view.submits + 1]
       /\ console' = {}
     ELSE
       /\ view' = [view EXCEPT !.password = password,
                               !.submits = view.submits + 1,
                               !.isDecrypting = TRUE,
                               !.decryptionError = "",
                               !.inFlight = "decryptWithPassword",
                               !.isProcessing = TRUE,
                               !.cryptoError = ""]
       /\ console' =
            {LogEntry("Attempting to decrypt with password:", password),
             LogEntry("Ciphertext:", ViewedPaste.ciphertext)}
  /\ lastFetch' = NoFetch
  /\ UNCHANGED <<now, localStorage, attempts, pageVars, backendVars,
                 cryptoVars, rngVars>>

\* decryptWithPassword has settled: the rest of handlePasswordSubmit.
PasswordDone ==
  /\ view.inFlight = "decryptWithPassword"
  /\ \E paste \in view.paste,
        result \in {hookDecryptWithPassword(ViewedPaste.ciphertext,
                                            view.password)} :
     LET settled == [view EXCEPT
                       !.inFlight = "none",
                       !.isProcessing = FALSE,
                       !.isDecrypting = FALSE,
                       !.cryptoError = IF result.ok THEN "" ELSE result.err]
     IN /\ view' =
             IF result.ok THEN
               [settled EXCEPT !.content = result.val,
                               !.showPasswordPrompt = FALSE,
                               !.effectPending = TRUE]
             ELSE
               [settled EXCEPT !.decryptionError = ViewPasswordError]
        /\ attempts' =
             Append(attempts,
                    Attempt("decryptWithPassword", "submit", paste,
                            view.password, result))
        /\ console' =
             DecryptWithPasswordLog(paste.ciphertext, result)
               \cup (IF result.ok
                     THEN {LogEntry("Decryption successful, plaintext length:",
                                    <<>>)}
                     ELSE {LogEntry("Password decryption failed:", <<>>)})
  /\ lastFetch' = NoFetch
  /\ UNCHANGED <<now, localStorage, pageVars, backendVars, cryptoVars, rngVars>>

\* Pastes are created with the form and opened in ViewPaste.
ViewNext ==
  \/ \E usePassword \in BOOLEAN :
       handleSubmit(<<97>>, <<49, 104>>, usePassword, <<112>>)
  \/ \E salt \in PageSalts, iv \in PageIvs, id \in IdPool :
       SubmitWithPassword(salt, iv, id, TRUE)
  \/ \E key \in PageKeys, iv \in PageIvs, id \in IdPool :
       SubmitWithKey(key, iv, id, TRUE)
  \/ \E id \in IdPool, fragment \in ViewFragments : OpenView(id, fragment)
  \/ ViewFetch
  \/ RunEffect
  \/ KeyedDone
  \/ \E password \in ViewPasswords : handlePasswordSubmit(password)
  \/ PasswordDone
  \/ \E t \in ClockTargets : AdvanceClock(t)

SpecView == Init /\ [][ViewNext]_vars

(***************************************************************************)
(* Properties of ViewPaste.                                                *)
(***************************************************************************)
\* decryptWithPassword has returned the plaintext for a submitted password.
Unlocked ==
  \E i \in DOMAIN attempts :
    attempts[i].fn = "decryptWithPassword" /\ attempts[i].ok

\* Nothing is pending in the component: no fetch, no effect, no decryption.
Settled ==
  view.mounted /\ ~view.fetchPending /\ ~view.effectPending
    /\ view.inFlight = "none"

\* C17: once the correct password has been submitted, the view comes to rest
\* showing the content with the password prompt hidden, and the prompt does
\* not come back.
C17_UnlockedStaysOpen ==
  (Unlocked /\ Settled) =>
    /\ ~view.showPasswordPrompt
    /\ Screen(view) = "content"

\* What the code ensures: in the step in which decryptWithPassword returns
\* the plaintext, the content is set and the prompt is hidden.
UnlockHidesPrompt ==
  [][(view.inFlight = "decryptWithPassword" /\ view'.inFlight = "none"
        /\ attempts'[Len(attempts')].ok)
       => /\ ~view'.showPasswordPrompt
          /\ view'.content = attempts'[Len(attempts')].val]_vars

\* C18: ViewPaste never applies the keyed decryption to the envelope of a
\* paste fetched with hasPassword = true, with or without a fragment in the
\* URL; only decryptWithPassword is applied to it.
C18_HasPasswordAuthoritative ==
  \A i \in DOMAIN attempts :
    attempts[i].hasPassword => attempts[i].fn = "decryptWithPassword"

\* What holds when the URL has no fragment.
KeyedSkippedWithoutFragment ==
  view.key = <<>> =>
    \A i \in DOMAIN attempts :
      attempts[i].hasPassword => attempts[i].fn = "decryptWithPassword"

\* The strings that are sensitive in a state: the passwords of the form and
\* of the prompt, the ciphertexts created or stored, and the salt and IV
\* fields of these.
SensitiveCiphertexts ==
  {s.args.ciphertext : s \in submissions}
    \cup {localStorage[id].ciphertext : id \in DOMAIN localStorage}

SensitiveStrings ==
  ({s.password : s \in submissions} \cup {view.password}
     \cup SensitiveCiphertexts
     \cup {substring(c, 0, IvHexLen) : c \in SensitiveCiphertexts}
     \cup {substring(c, 0, SaltHexLen) : c \in SensitiveCiphertexts}
     \cup {substring(c, SaltHexLen, SaltIvHexLen) : c \in SensitiveCiphertexts})
    \ {<<>>}

\* C19: no password, salt, IV or ciphertext is written to the console by any
\* step of creating or viewing a paste.
C19_NothingSensitiveLogged ==
  \A entry \in console : entry.value \notin SensitiveStrings

\* C20: after a decryption attempt of the view has failed, every further
\* attempt is the decryptWithPassword call of a password submission, and
\* there is at most one such call per submission.
C20_NoAutomaticRetry ==
  /\ \A i \in DOMAIN attempts, j \in DOMAIN attempts :
       (i < j /\ ~attempts[i].ok)
         => (attempts[j].trigger = "submit"
               /\ attempts[j].fn = "decryptWithPassword")
  /\ Cardinality({i \in DOMAIN attempts :
                    attempts[i].fn = "decryptWithPassword"}) <= view.submits

\* What holds unless a password-protected paste is opened with a fragment.
NoRetryInUsualModes ==
  (view.mounted /\ view.paste # {}
     /\ ~(ViewedPaste.hasPassword /\ view.key # <<>>))
    => C20_NoAutomaticRetry

\* The decryption that was awaited has settled in this step, and failed.
FailedStep(fn) ==
  /\ view.inFlight = fn
  /\ view'.inFlight = "none"
  /\ ~attempts'[Len(attempts')].ok

\* C21: a submitted password that fails to decrypt leaves the content as it
\* was, sets the invalid-password error, ends with isDecrypting = false and
\* leaves the prompt on the screen for another submission; a keyed
\* decryption that fails ends on the error screen, without a prompt.
C21_FailureOutcomes ==
  [][/\ FailedStep("decryptWithPassword")
          => /\ view'.content = view.content
             /\ view'.decryptionError = ViewPasswordError
             /\ ~view'.isDecrypting
             /\ ~view'.effectPending
             /\ Screen(view') = "prompt"
     /\ FailedStep("decryptText")
          => /\ view'.decryptionError = ViewKeyedError
             /\ ~view'.showPasswordPrompt
             /\ Screen(view') = "error"]_vars

\* The same, the keyed half for pastes without hasPassword only.
FailureOutcomesOfOwnMode ==
  [][/\ FailedStep("decryptWithPassword")
          => /\ view'.content = view.content
             /\ view'.decryptionError = ViewPasswordError
             /\ ~view'.isDecrypting
             /\ ~view'.effectPending
             /\ Screen(view') = "prompt"
     /\ (FailedStep("decryptText") /\ ~ViewedPaste.hasPassword)
          => /\ view'.decryptionError = ViewKeyedError
             /\ ~view'.showPasswordPrompt
             /\ Screen(view') = "error"]_vars

(***************************************************************************)
(* The password functions in a browser whose key-derivation primitive may  *)
(* be unavailable (window.crypto.subtle without PBKDF2).                   *)
(***************************************************************************)
\* deriveKeyFromPassword: subtle.importKey / subtle.deriveKey reject when the
\* primitive is not available.
DeriveKey(available, password, salt) ==
  IF available THEN Resolved(deriveKeyFromPassword(password, salt))
  ELSE Rejected(NotSupportedError)

\* encryptWithPassword: the await of deriveKeyFromPassword is in no try
\* block, its rejection is the rejection of encryptWithPassword.
EncryptWithPasswordIn(available, text, password, salt, iv) ==
  LET key == DeriveKey(available, password, salt)
  IN IF ~key.ok THEN Rejected(key.err)
     ELSE encryptWithPassword(text, password, salt, iv)

\* decryptWithPassword: the await of deriveKeyFromPassword is inside the try
\* block, the catch replaces whatever was thrown.
DecryptWithPasswordIn(available, ciphertext, password) ==
  LET salt == hexToArrayBuffer(substring(ciphertext, 0, SaltHexLen))
      key == DeriveKey(available, password, salt)
  IN IF ~key.ok THEN Rejected(PasswordDecryptError)
     ELSE decryptWithPassword(ciphertext, password)

DerivePasswords == {<<112>>, <<113>>}

\* The envelopes the earlier encryptWithPassword calls returned.
CallEnvelopes ==
  {calls[i].result.val : i \in {j \in 1..Len(calls) : calls[j].result.ok}}

DeriveEncryptCall(available, text, password) ==
  /\ Len(calls) < MaxCalls
  /\ \E result \in {EncryptWithPasswordIn(available, text, password,
                                          PasswordSalt(drawn),
                                          PasswordIv(drawn))} :
       /\ calls' = Append(calls,
                     [fn |-> "encryptWithPassword", secret |-> password,
                      available |-> available, result |-> result])
       /\ console' = IF result.ok
                     THEN EncryptWithPasswordLog(PasswordSalt(drawn),
                                                 PasswordIv(drawn))
                     ELSE {e \in EncryptWithPasswordLog(PasswordSalt(drawn),
                                                        PasswordIv(drawn)) :
                             e.label # "Encryption complete. Ciphertext length:"}
  /\ drawn' = drawn + 2
  /\ UNCHANGED <<cryptoVars, pageVars, storeVars, backendVars, viewVars>>

DeriveDecryptCall(available, ciphertext, password) ==
  /\ Len(calls) < MaxCalls
  /\ \E result \in {DecryptWithPasswordIn(available, ciphertext, password)} :
       /\ calls' = Append(calls,
                     [fn |-> "decryptWithPassword", secret |-> password,
                      available |-> available,
                      result |-> result])
       /\ console' = DecryptWithPasswordLog(ciphertext, result)
  /\ UNCHANGED <<drawn, cryptoVars, pageVars, storeVars, backendVars,
                 viewVars>>

DeriveNext ==
  \/ \E available \in BOOLEAN, text \in CallTexts,
        password \in DerivePasswords :
       DeriveEncryptCall(available, text, password)
  \/ \E available \in BOOLEAN, ciphertext \in CallEnvelopes,
        password \in DerivePasswords :
       DeriveDecryptCall(available, ciphertext, password)

\* Password encryptions and decryptions, each with the primitive available
\* or not.
SpecDerive == Init /\ [][DeriveNext]_vars

DerivationFailed(c) ==
  /\ c.fn \in {"encryptWithPassword", "decryptWithPassword"}
  /\ ~c.available

\* C22: a call of encryptWithPassword or decryptWithPassword made while the
\* key-derivation primitive is unavailable fails, and its error is not the
\* error of an authentication-tag failure.
C22_DerivationErrorDistinct ==
  \A i \in 1..Len(calls) :
    DerivationFailed(calls[i]) =>
      /\ ~calls[i].result.ok
      /\ calls[i].result.err # PasswordDecryptError

\* The encryption half: the rejection of deriveKeyFromPassword reaches the
\* caller of encryptWithPassword as it was thrown.
EncryptKeepsDerivationError ==
  \A i \in 1..Len(calls) :
    (DerivationFailed(calls[i]) /\ calls[i].fn = "encryptWithPassword") =>
      /\ ~calls[i].result.ok
      /\ calls[i].result.err = NotSupportedError

(***************************************************************************)
(* The envelope formats on their own: the hex strings encrypt and          *)
(* encryptWithPassword put together from their byte fields, and the fields *)
(* decrypt and decryptWithPassword take out of such a string.              *)
(***************************************************************************)
MaxCodecLen == 2
NumCodecSeeds == 2

\* encryptWithPassword: saltHex + ivHex + encryptedHex.
PasswordEnvelope(salt, iv, encrypted) ==
  arrayBufferToHex(salt) \o arrayBufferToHex(iv) \o arrayBufferToHex(encrypted)

\* encrypt: ivHex + encryptedHex.
KeyedEnvelope(iv, encrypted) ==
  arrayBufferToHex(iv) \o arrayBufferToHex(encrypted)

\* The IV field read two characters early.
SplitPasswordEnvelope_Early(ciphertext) ==
  [salt |-> hexToArrayBuffer(substring(ciphertext, 0, SaltHexLen)),
   iv |-> hexToArrayBuffer(substring(ciphertext, SaltHexLen - 2,
                                     SaltIvHexLen - 2)),
   encrypted |-> hexToArrayBuffer(substringFrom(ciphertext, SaltIvHexLen))]

\* decryptWithPassword: the three substrings and their bytes.
SplitPasswordEnvelope(ciphertext) ==
  [salt |-> hexToArrayBuffer(substring(ciphertext, 0, SaltHexLen)),
   iv |-> hexToArrayBuffer(substring(ciphertext, SaltHexLen, SaltIvHexLen)),
   encrypted |-> hexToArrayBuffer(substringFrom(ciphertext, SaltIvHexLen))]

\* decrypt: the two substrings and their bytes.
SplitKeyedEnvelope(ciphertext) ==
  [iv |-> hexToArrayBuffer(substring(ciphertext, 0, IvHexLen)),
   encrypted |-> hexToArrayBuffer(substringFrom(ciphertext, IvHexLen))]

\* Byte values around the one-digit / two-digit and the sign-bit borders.
CodecBytes == {0, 9, 10, 15, 16, 127, 128, 255}

Fill(len, b) == [j \in 1..len |-> b]

CodecSalts ==
  {RandomBytes(SaltBytes, s) : s \in 0..(NumCodecSeeds - 1)}
    \cup {Fill(SaltBytes, b) : b \in {0, 15, 255}}

CodecIvs ==
  {RandomBytes(IvBytes, s + 3) : s \in 0..(NumCodecSeeds - 1)}
    \cup {Fill(IvBytes, b) : b \in {0, 15, 255}}

\* Every byte on its own, and the sequences over the border values.
CodecCiphertexts ==
  {<<b>> : b \in 0..255} \cup SeqsUpTo(CodecBytes, MaxCodecLen)

CodecInit ==
  /\ cPhase = "bytes"
  /\ cText \in CodecCiphertexts
  /\ cMode = "none"
  /\ cSecret \in [salt : CodecSalts, iv : CodecIvs]
  /\ cEnvelope = NoResult
  /\ cGiven = <<>>
  /\ cFlipped = FALSE
  /\ cDecSecret = <<>>
  /\ cOutput = NoResult
  /\ AppInit

\* The fields are written as one hex string.
AssembleEnvelope(mode) ==
  /\ cPhase = "bytes"
  /\ cPhase' = "assembled"
  /\ cMode' = mode
  /\ cGiven' = CASE mode = "password" ->
                      PasswordEnvelope(cSecret.salt, cSecret.iv, cText)
                 [] mode = "keyed" -> KeyedEnvelope(cSecret.iv, cText)
                 [] OTHER -> arrayBufferToHex(cText)
  /\ cEnvelope' = Resolved(cGiven')
  /\ console' = {}
  /\ UNCHANGED <<cText, cSecret, cFlipped, cDecSecret, cOutput>>
  /\ UNCHANGED appVars

\* The hex string is taken apart again.
SplitEnvelope ==
  /\ cPhase = "assembled"
  /\ cPhase' = "split"
  /\ cOutput' = Resolved(CASE cMode = "password" -> SplitPasswordEnvelope(cGiven)
                           [] cMode = "keyed" -> SplitKeyedEnvelope(cGiven)
                           [] OTHER -> hexToArrayBuffer(cGiven))
  /\ console' = {}
  /\ UNCHANGED <<cText, cMode, cSecret, cEnvelope, cGiven, cFlipped,
                 cDecSecret>>
  /\ UNCHANGED appVars

CodecNext ==
  \/ \E mode \in {"password", "keyed", "bytes"} : AssembleEnvelope(mode)
  \/ SplitEnvelope

\* Byte fields written as an envelope and read back.
SpecCodec == CodecInit /\ [][CodecNext]_vars

\* C23: the fields read back at the hex offsets 32 and 56 of a passworded
\* envelope are the salt, the IV and the ciphertext it was made of, those
\* read back at offset 24 of a keyed envelope are the IV and the ciphertext,
\* and hexToArrayBuffer(arrayBufferToHex(b)) = b.
C23_DecodingInvertsEncoding ==
  cPhase = "split" =>
    CASE cMode = "password" ->
           cOutput.val = [salt |-> cSecret.salt, iv |-> cSecret.iv,
                          encrypted |-> cText]
      [] cMode = "keyed" ->
           cOutput.val = [iv |-> cSecret.iv, encrypted |-> cText]
      [] OTHER -> cOutput.val = cText

\* A passworded envelope of a salt ending and an IV beginning in one-digit
\* bytes has been read back.
C23_Witness ==
  /\ cPhase = "split"
  /\ cMode = "password"
  /\ cSecret.salt[SaltBytes] = 15
  /\ cSecret.iv[1] = 15
  /\ Len(cText) = MaxCodecLen
  /\ cOutput.val.encrypted = cText

(***************************************************************************)
(* createPaste called on its own, with ttl strings of every shape.         *)
(***************************************************************************)
\* "1h" "6h" "24h" "7d" "30d", and "5m" "2d" "0h" "h" "xh" "" "abc" "10" "1w".
TtlStrings ==
  TtlOptions \cup
    {<<53, 109>>, <<50, 100>>, <<48, 104>>, <<104>>, <<120, 104>>, <<>>,
     <<97, 98, 99>>, <<49, 48>>, <<49, 119>>}

InvalidTimeError == "Invalid time value"

\* createPaste(ciphertext, ttl, hasPassword), generateId returning id and
\* setItem succeeding or exceeding the quota.  toISOString of an invalid
\* Date throws before anything is written.
createPaste(ciphertext, ttl, hasPassword, id, quotaOk) ==
  LET expiresAt == ttlToExpiresAt(ttl, now)
      pasteData == PasteData(ciphertext, expiresAt, hasPassword)
      done == expiresAt # NaN /\ quotaOk
  IN /\ nSubmitted < MaxSubmits
     /\ nSubmitted' = nSubmitted + 1
     /\ localStorage' =
          IF done THEN setItem(localStorage, id, pasteData) ELSE localStorage
     /\ submissions' =
          submissions \cup
            {[n |-> nSubmitted', at |-> now, id |-> id, stored |-> done,
              args |-> [ciphertext |-> ciphertext, ttl |-> ttl,
                        hasPassword |-> hasPassword],
              quotaOk |-> quotaOk,
              error |-> IF done THEN ""
                        ELSE IF expiresAt = NaN THEN InvalidTimeError
                        ELSE QuotaExceededError]}
     /\ lastFetch' = NoFetch
     /\ console' = CreatePasteLog(pasteData, done)
     /\ UNCHANGED <<now, submit, isSubmitting, error, location, backendVars,
                    cryptoVars, rngVars, viewVars>>

TtlNext ==
  \/ \E ttl \in TtlStrings, hasPassword \in BOOLEAN, id \in IdPool,
        quotaOk \in BOOLEAN :
       createPaste(<<97>>, ttl, hasPassword, id, quotaOk)
  \/ \E id \in IdPool : fetchPaste(id)
  \/ \E t \in ClockTargets : AdvanceClock(t)

\* Pastes of every ttl string are created and fetched while the clock moves
\* on.
SpecTtl == Init /\ [][TtlNext]_vars

IsCount(s) == s # <<>> /\ \A j \in 1..Len(s) : s[j] >= 48 /\ s[j] <= 57

\* The expiry of the claim: N hours, days or minutes after t for a ttl made
\* of a count N and the unit h, d or m, 24 hours after t for any other.
StatedExpiry(ttl, t) ==
  LET count == SubSeq(ttl, 1, Len(ttl) - 1)
      N == parseInt(count, 10)
  IN IF Len(ttl) >= 2 /\ IsCount(count) /\ ttl[Len(ttl)] = 104
     THEN t + MinutesPerHour * N
     ELSE IF Len(ttl) >= 2 /\ IsCount(count) /\ ttl[Len(ttl)] = 100
     THEN t + MinutesPerDay * N
     ELSE IF Len(ttl) >= 2 /\ IsCount(count) /\ ttl[Len(ttl)] = 109
     THEN t + N
     ELSE t + MinutesPerHour * 24

\* The call createPaste made in this step, if it made one.
Created == submissions' \ submissions

\* C24: a createPaste call that storage has room for stores the record with
\* expiresAt the stated expiry of its ttl; for the five offered options that
\* is later than the creation time and the paste can be fetched at once.
C24_TtlMapping ==
  [][\A r \in Created :
       r.quotaOk =>
         /\ r.stored
         /\ localStorage'[r.id].expiresAt = StatedExpiry(r.args.ttl, now)
         /\ r.args.ttl \in TtlOptions =>
              /\ localStorage'[r.id].expiresAt > now
              /\ FetchResult(localStorage', r.id, now) # {}]_vars

\* The mapping for every ttl string parseInt reads a count from, and the
\* consequence for the offered options.
TtlMappingOfCounts ==
  [][\A r \in Created :
       (r.quotaOk /\ (parseInt(r.args.ttl, 0) # NaN
                        \/ ~(\E u \in {104, 100, 109} :
                               endsWith(r.args.ttl, u)))) =>
         /\ r.stored
         /\ localStorage'[r.id].expiresAt = StatedExpiry(r.args.ttl, now)
         /\ r.args.ttl \in TtlOptions =>
              /\ localStorage'[r.id].expiresAt > now
              /\ FetchResult(localStorage', r.id, now) # {}]_vars

\* Nothing but white space, or nothing at all.
IsBlank(s) == \A j \in 1..Len(s) : s[j] \in StrWhiteSpace

\* C25: a submission whose content is blank, or whose password is blank
\* while password protection is on, sets an error and does nothing else: no
\* encryption is started, nothing is written to the store and the location
\* stays.
C25_InvalidSubmissionRejected ==
  [][\A content \in Contents, ttl \in TtlOptions, usePassword \in BOOLEAN,
        password \in FormPasswords :
       (/\ handleSubmit(content, ttl, usePassword, password)
        /\ IsBlank(content) \/ (usePassword /\ IsBlank(password))) =>
         /\ error' = IF IsBlank(content) THEN ContentEmptyError
                     ELSE PasswordEmptyError
         /\ submit'.pc = "idle"
         /\ ~isSubmitting'
         /\ console' = {}
         /\ localStorage' = localStorage
         /\ location' = location
         /\ submissions' = submissions]_vars

\* A paste is stored, and a second submission with a blank password has
\* been turned down.
C25_Witness ==
  /\ nSubmitted = 2
  /\ error = PasswordEmptyError
  /\ submit.pc = "idle"
  /\ DOMAIN localStorage # {}
  /\ location # NoLocation

\* The ciphertexts the pending encryption of the form can resolve to.
PendingCiphertexts ==
  IF submit.usePassword
  THEN {encryptWithPassword(submit.content, submit.password, salt, iv).val :
          salt \in PageSalts, iv \in PageIvs}
  ELSE {encrypt(submit.content, key, iv).val :
          key \in PageKeys, iv \in PageIvs}

\* The ids under which this step wrote a record.
Written ==
  {id \in DOMAIN localStorage' :
     id \notin DOMAIN localStorage \/ localStorage'[id] # localStorage[id]}

\* The outcome of a submission in which the encryption or the store write
\* failed.
SubmissionFailed ==
  /\ location' = location
  /\ localStorage' = localStorage
  /\ error' # ""
  /\ ~isSubmitting'

\* C26: a record is written only by a submission whose encryption has
\* resolved, and it holds that ciphertext; the location changes only to the
\* view of a record the same step has stored; a submission whose encryption
\* or store write fails leaves the location, shows the error, and
\* isSubmitting is false whenever no submission is under way.
C26_CreationOrdering ==
  [][/\ Written # {} =>
          /\ submit.pc = "encrypting"
          /\ \A id \in Written :
               localStorage'[id].ciphertext \in PendingCiphertexts
     /\ location' # location =>
          /\ submit.pc = "encrypting"
          /\ location'.path \in DOMAIN localStorage'
          /\ localStorage'[location'.path].ciphertext \in PendingCiphertexts
          /\ error' = ""
     /\ \A salt \in PageSalts, iv \in PageIvs :
          SubmitEncryptionFailed(salt, iv) => SubmissionFailed
     /\ \A salt \in PageSalts, iv \in PageIvs, id \in IdPool :
          SubmitWithPassword(salt, iv, id, FALSE) => SubmissionFailed
     /\ \A key \in PageKeys, iv \in PageIvs, id \in IdPool :
          SubmitWithKey(key, iv, id, FALSE) => SubmissionFailed
     /\ submit'.pc = "idle" => ~isSubmitting']_vars

\* One submission has failed in the store write after another has been
\* stored and shown.
C26_Witness ==
  /\ nSubmitted = 2
  /\ submit.pc = "idle"
  /\ error = QuotaExceededError
  /\ ~isSubmitting
  /\ location # NoLocation
  /\ Cardinality(DOMAIN localStorage) = 1
  /\ \E s \in submissions : ~s.stored

\* C27: a fetchPaste(id) call leaves every record under another id as it
\* is and adds none; the record under id is either left as it is or, when
\* it has expired, removed; a missing or unexpired id leaves the whole store
\* unchanged.
C27_FetchFrame ==
  [][lastFetch'.called =>
       LET id == lastFetch'.id
       IN /\ DOMAIN localStorage' \subseteq DOMAIN localStorage
          /\ \A i \in DOMAIN localStorage \ {id} :
               /\ i \in DOMAIN localStorage'
               /\ localStorage'[i] = localStorage[i]
          /\ id \in DOMAIN localStorage' => localStorage'[id] = localStorage[id]
          /\ (id \in DOMAIN localStorage /\ id \notin DOMAIN localStorage') =>
               localStorage[id].expiresAt < now
          /\ (id \notin DOMAIN localStorage
                \/ ~(localStorage[id].expiresAt < now)) =>
               localStorage' = localStorage]_vars

\* An expired paste has been fetched and removed while an unexpired one is
\* stored beside it.
C27_Witness ==
  /\ lastFetch.called
  /\ lastFetch.before # {}
  /\ lastFetch.id \notin DOMAIN localStorage
  /\ \E i \in DOMAIN localStorage : localStorage[i].expiresAt >= now

(***************************************************************************)
(* useFetchPaste under a route parameter that changes: every render with a *)
(* new id runs the effect again, and fetchData goes on after its await     *)
(* when its turn comes.  view.fetches holds the fetchData calls that have  *)
(* not gone on yet, in the order of their awaits.                          *)
(***************************************************************************)
MaxRenders == 3

\* The component is rendered with id: the first render mounts the hook
\* (paste null, loading true, error null), a later one keeps its state.
\* The effect of the render before has run by then.
HookRender(id) ==
  /\ view.renders < MaxRenders
  /\ ~view.fetchPending
  /\ ~view.mounted \/ id # view.id
  /\ view' = IF view.mounted
             THEN [view EXCEPT !.id = id, !.fetchPending = TRUE,
                               !.renders = @ + 1]
             ELSE [NoView EXCEPT !.mounted = TRUE, !.id = id,
                                 !.loading = TRUE, !.fetchPending = TRUE,
                                 !.renders = 1]
  /\ lastFetch' = NoFetch
  /\ console' = {}
  /\ UNCHANGED <<now, localStorage, attempts, pageVars, backendVars,
                 cryptoVars, rngVars>>

\* The effect: fetchData up to its await.  fetchPaste runs to its return
\* within the call.
HookEffect ==
  /\ view.mounted
  /\ view.fetchPending
  /\ view' = [view EXCEPT
                !.fetchPending = FALSE,
                !.loading = TRUE,
                !.fetchError = "",
                !.fetches = Append(@, [id |-> view.id,
                                       result |-> FetchResult(localStorage,
                                                              view.id, now)])]
  /\ lastFetch' =
       [called |-> TRUE, id |-> view.id, at |-> now,
        before |-> IF view.id \in DOMAIN localStorage
                   THEN {localStorage[view.id]} ELSE {},
        result |-> FetchResult(localStorage, view.id, now)]
  /\ localStorage' = FetchEffect(localStorage, view.id, now)
  /\ console' = FetchPasteLog(localStorage, view.id, now)
  /\ UNCHANGED <<now, attempts, pageVars, backendVars, cryptoVars, rngVars>>

\* fetchData after its await: the branches on pasteData, then the finally
\* block.
HookSettle ==
  /\ view.mounted
  /\ view.fetches # <<>>
  /\ LET pasteData == Head(view.fetches).result
     IN view' = [view EXCEPT
                   !.fetches = Tail(@),
                   !.paste = pasteData,
                   !.fetchError = IF pasteData = {} THEN NotFoundError ELSE @,
                   !.loading = FALSE]
  /\ lastFetch' = NoFetch
  /\ console' = {}
  /\ UNCHANGED <<now, localStorage, attempts, pageVars, backendVars,
                 cryptoVars, rngVars>>

HookNext ==
  \/ \E hasPassword \in BOOLEAN, id \in IdPool, quotaOk \in BOOLEAN :
       createPaste(<<97>>, <<49, 104>>, hasPassword, id, quotaOk)
  \/ \E id \in IdPool : HookRender(id)
  \/ HookEffect
  \/ HookSettle
  \/ \E t \in ClockTargets : AdvanceClock(t)

\* Pastes are created while the id of the view changes.
SpecHook == Init /\ [][HookNext]_vars

\* This step is that of the last fetchData call to go on.
LastSettles ==
  /\ view.mounted
  /\ ~view.fetchPending
  /\ Len(view.fetches) = 1
  /\ view'.fetches = <<>>

\* C28: once every fetch has completed, paste and error are those of the
\* fetch of the latest id; and whenever loading is false, exactly one of
\* paste and error is set.
C28_FollowsLatestId ==
  [][/\ LastSettles =>
          /\ Head(view.fetches).id = view'.id
          /\ view'.paste = Head(view.fetches).result
          /\ (view'.fetchError # "") = (Head(view.fetches).result = {})
     /\ (view'.mounted /\ ~view'.loading) =>
          (view'.paste # {}) # (view'.fetchError # "")]_vars

\* The paste half: once every fetch has completed, the paste is the one the
\* fetch of the latest id returned.
PasteFollowsLatestId ==
  [][LastSettles =>
       /\ Head(view.fetches).id = view'.id
       /\ view'.paste = Head(view.fetches).result]_vars

(***************************************************************************)
(* useCrypto on its own: its functions are called while earlier calls are  *)
(* still awaiting the Web Crypto promise, and the calls go on after their  *)
(* awaits in any order.  view.operations holds the calls that have not     *)
(* gone on yet.                                                            *)
(***************************************************************************)
MaxOperations == 3

\* What the callers hold: an envelope of each kind, made from "a".
HookKeyedEnvelope ==
  encrypt(<<97>>, generateKey(1), RandomBytes(IvBytes, 1)).val

HookPasswordEnvelope ==
  encryptWithPassword(<<97>>, <<112>>, RandomBytes(SaltBytes, 3),
                      RandomBytes(IvBytes, 1)).val

\* The result of the cryptoUtils call inside the hook function fn.
HookResult(fn, secret) ==
  CASE fn = "decryptText" -> decryptText(HookKeyedEnvelope, secret)
    [] fn = "decryptWithPassword" ->
         hookDecryptWithPassword(HookPasswordEnvelope, secret)
    [] OTHER -> encryptWithPassword(<<97>>, secret, RandomBytes(SaltBytes, 3),
                                    RandomBytes(IvBytes, 1))

HookSecrets(fn) ==
  IF fn = "decryptText" THEN GeneratedKeys ELSE {<<112>>, <<113>>}

\* A hook function up to its await: setIsProcessing(true), setError(null).
StartOperation(fn, secret) ==
  /\ view.started < MaxOperations
  /\ \E result \in {HookResult(fn, secret)} :
       view' = [view EXCEPT
                  !.started = @ + 1,
                  !.isProcessing = TRUE,
                  !.cryptoError = "",
                  !.operations = @ \cup {[n |-> view.started + 1, fn |-> fn,
                                          ok |-> result.ok,
                                          err |-> result.err]}]
  /\ console' = {}
  /\ lastFetch' = NoFetch
  /\ UNCHANGED <<now, localStorage, attempts, pageVars, backendVars,
                 cryptoVars, rngVars>>

\* A hook function after its await: the catch block if the promise
\* rejected, then the finally block.
FinishOperation(op) ==
  /\ op \in view.operations
  /\ view' = [view EXCEPT
                !.operations = @ \ {op},
                !.cryptoError = IF op.ok THEN @ ELSE op.err,
                !.isProcessing = FALSE]
  /\ console' = {}
  /\ lastFetch' = NoFetch
  /\ UNCHANGED <<now, localStorage, attempts, pageVars, backendVars,
                 cryptoVars, rngVars>>

BusyNext ==
  \/ \E fn \in {"decryptText", "decryptWithPassword", "encryptWithPassword"} :
       \E secret \in HookSecrets(fn) : StartOperation(fn, secret)
  \/ \E op \in view.operations : FinishOperation(op)

\* Calls of the functions of useCrypto, overlapping or not.
SpecBusy == Init /\ [][BusyNext]_vars

\* The call that goes on in this step, if one does.
Finished == view.operations \ view'.operations

\* C29: isProcessing is true while an operation started through the hook
\* has not completed and false once all have; after an operation that
\* succeeded error is null, after one that failed it is its message.
C29_BusyFlag ==
  [][/\ view'.isProcessing = (view'.operations # {})
     /\ \A op \in Finished :
          view'.cryptoError = IF op.ok THEN "" ELSE op.err]_vars

\* The closing half: once every operation has completed, isProcessing is
\* false; and a failed operation leaves its message.
IdleWhenAllCompleted ==
  [][/\ view'.operations = {} => ~view'.isProcessing
     /\ \A op \in Finished : ~op.ok => view'.cryptoError = op.err]_vars

====
